---- MODULE Spec2Model ----
(***************************************************************************)
(* Retrieval core of TahlilchiAI (tahlilchi-rag): reciprocal-rank fusion,  *)
(* BM25 sparse search, the document graph builder, the neighbor query,     *)
(* the query analyzer, the routing strategy, the hybrid retrieval engine   *)
(* over the persisted per-collection stores, concurrent sessions on the    *)
(* sparse index row, and the Redis rate limiter.                           *)
(*                                                                         *)
(* Scores are fixed-point numbers: the integer s stands for s / Scale.     *)
(***************************************************************************)
EXTENDS Integers, Sequences, FiniteSets, TLC

VARIABLES
    arg,                \* input of the last call of a pure component
    res,                \* its result
    documents,          \* ids of the rows of the documents table
    atomic_units,       \* the rows of the atomic_units table
    bm25_indexes,       \* bm25_indexes table: chat_id -> row or NoRow
    document_graphs,    \* document_graphs table: chat_id -> row or NoRow
    qdrant,             \* vector store: chat_id -> set of indexed points
    ret,                \* outcome of the last service call, until taken
    redis,              \* Redis: key -> counter
    sessions            \* concurrent callers: name -> position and locals

vars == <<arg, res, documents, atomic_units, bm25_indexes, document_graphs, qdrant, ret, redis, sessions>>

sysvars == <<documents, atomic_units, bm25_indexes, document_graphs, qdrant, ret, redis, sessions>>

----------------------------------------------------------------------------
(* Bounds of the model *)

MaxListLen == 2         \* longest ranked list handed to fuse in SpecFuse

----------------------------------------------------------------------------
(* Fixed-point scale.  Scale is divisible by W * (RRF_K + r) for the       *)
(* weight sums W in {2, 4, 5} and the ranks r <= 3 (61, 62, 63), by 5^3    *)
(* (a fused score decayed by 0.8 twice) and by 1000 (BM25 scores are       *)
(* computed in thousandths, thresholds are given in hundredths).           *)

Scale == 8 * 9 * 125 * 7 * 31 * 61

RRF_K == 60

NoRow == [kind |-> "none"]

Range(s) == {s[i] : i \in DOMAIN s}

RECURSIVE SeqSum(_)
SeqSum(s) == IF s = <<>> THEN 0 ELSE Head(s) + SeqSum(Tail(s))

(* All sequences over S of length 0..n *)
SeqsUpTo(S, n) == UNION {[1..k -> S] : k \in 0..n}

----------------------------------------------------------------------------
(* sorted(..., key=score, reverse=True): Python's sort is stable, also    *)
(* with reverse=True, so equal scores keep their original order.          *)

(* an insertion that puts an item before the items of equal score *)
RECURSIVE InsertBeforeEqual(_, _)
InsertBeforeEqual(sorted, x) ==
    IF sorted = <<>> THEN <<x>>
    ELSE IF Head(sorted).score > x.score
         THEN <<Head(sorted)>> \o InsertBeforeEqual(Tail(sorted), x)
         ELSE <<x>> \o sorted

RECURSIVE InsertDesc(_, _)
InsertDesc(sorted, x) ==
    IF sorted = <<>> THEN <<x>>
    ELSE IF Head(sorted).score >= x.score
         THEN <<Head(sorted)>> \o InsertDesc(Tail(sorted), x)
         ELSE <<x>> \o sorted

RECURSIVE SortDescFrom(_, _)
SortDescFrom(acc, rest) ==
    IF rest = <<>> THEN acc
    ELSE SortDescFrom(InsertDesc(acc, Head(rest)), Tail(rest))

SortByScoreDesc(s) == SortDescFrom(<<>>, s)

Prefix(s, n) == IF Len(s) <= n THEN s ELSE SubSeq(s, 1, n)

----------------------------------------------------------------------------
(* ReciprocalRankFusion.fuse (services/retrieval/fusion.py)                *)
(* An item is [atomic_unit_id, score, source, metadata].  weights are     *)
(* positive integers; weights[i] / weight_sum is the normalised weight.   *)

(* weights used as given, not normalised *)
WeightSumOne(weights) == 1

WeightSum(weights) == SeqSum(weights)

(* weight / (k + rank) for the normalised weight, rank counted from 1 *)
RankStartZero(w, weight_sum, rank) == w * (Scale \div (weight_sum * (RRF_K + rank - 1)))

RRFContribution(w, weight_sum, rank) == w * (Scale \div (weight_sum * (RRF_K + rank)))

(* acc = [order: ids in first-seen order (dict insertion order),          *)
(*        rrf_scores: id -> score, item_data: id -> first item]           *)
RECURSIVE FuseList(_, _, _, _, _)
FuseList(acc, ranked_list, rank, w, weight_sum) ==
    IF rank > Len(ranked_list) THEN acc
    ELSE LET item    == ranked_list[rank]
             item_id == item.atomic_unit_id
             seen    == item_id \in DOMAIN acc.rrf_scores
             old     == IF seen THEN acc.rrf_scores[item_id] ELSE 0
             new     == old + RRFContribution(w, weight_sum, rank)
             acc2    == [order      |-> IF seen THEN acc.order
                                                ELSE Append(acc.order, item_id),
                         rrf_scores |-> [x \in DOMAIN acc.rrf_scores \cup {item_id} |->
                                           IF x = item_id THEN new
                                           ELSE acc.rrf_scores[x]],
                         item_data  |-> [x \in DOMAIN acc.item_data \cup {item_id} |->
                                           IF x \in DOMAIN acc.item_data
                                           THEN acc.item_data[x] ELSE item]]
         IN  FuseList(acc2, ranked_list, rank + 1, w, weight_sum)

RECURSIVE FuseLists(_, _, _, _)
FuseLists(acc, ranked_lists, weights, list_idx) ==
    IF list_idx > Len(ranked_lists) THEN acc
    ELSE FuseLists(FuseList(acc, ranked_lists[list_idx], 1,
                            weights[list_idx], WeightSum(weights)),
                   ranked_lists, weights, list_idx + 1)

EmptyAcc == [order |-> <<>>, rrf_scores |-> <<>>, item_data |-> <<>>]

fuse(ranked_lists, weights) ==
    IF ranked_lists = <<>> THEN <<>>
    ELSE LET acc    == FuseLists(EmptyAcc, ranked_lists, weights, 1)
             scored == [i \in 1..Len(acc.order) |->
                          [acc.item_data[acc.order[i]] EXCEPT
                              !.score  = acc.rrf_scores[acc.order[i]],
                              !.source = "fusion"]]
         IN  SortByScoreDesc(scored)

----------------------------------------------------------------------------
(* SpecFuse: fuse applied to every pair of short ranked lists *)

FuseIds == {"a", "b", "c"}

FuseItem(id, src, rank) ==
    [atomic_unit_id |-> id, score |-> (MaxListLen + 1 - rank) * (Scale \div 10),
     source |-> src, metadata |-> src]

FuseInputList(src) ==
    {[r \in 1..Len(ids) |-> FuseItem(ids[r], src, r)] : ids \in SeqsUpTo(FuseIds, MaxListLen)}

FuseWeights == {<<3, 2>>, <<1, 1>>, <<4, 1>>, <<1, 3>>}

NoCall == [op |-> "none"]

NoSystem ==
    /\ documents = {}
    /\ atomic_units = {}
    /\ bm25_indexes = <<>>
    /\ document_graphs = <<>>
    /\ qdrant = <<>>
    /\ ret = NoCall
    /\ redis = <<>>
    /\ sessions = <<>>

FuseInit ==
    /\ \E dense \in FuseInputList("dense"), sparse \in FuseInputList("sparse"),
          weights \in FuseWeights :
          arg = [op |-> "fuse", ranked_lists |-> <<dense, sparse>>, weights |-> weights]
    /\ res = NoCall
    /\ NoSystem

FuseCall ==
    /\ arg.op = "fuse" /\ res = NoCall
    /\ res' = [op |-> "fuse", fused |-> fuse(arg.ranked_lists, arg.weights)]
    /\ UNCHANGED <<arg, sysvars>>

SpecFuse == FuseInit /\ [][FuseCall]_vars

----------------------------------------------------------------------------
(* C4  RRF fusion bounds *)

(* positions (list index, rank) at which id occurs in the input lists *)
Occurrences(lists, id) ==
    {p \in (DOMAIN lists) \X (1..MaxListLen + 1) :
        p[2] <= Len(lists[p[1]]) /\ lists[p[1]][p[2]].atomic_unit_id = id}

RECURSIVE SumOver(_, _, _)
SumOver(S, lists, weights) ==
    IF S = {} THEN 0
    ELSE LET p == CHOOSE q \in S : TRUE
         IN  weights[p[1]] * (Scale \div (WeightSum(weights) * (RRF_K + p[2])))
             + SumOver(S \ {p}, lists, weights)

InputIds(lists) == UNION {{lists[i][r].atomic_unit_id : r \in DOMAIN lists[i]} : i \in DOMAIN lists}

\* C4: every fused score is the sum, over the lists the item appears in, of
\* normalized_weight / (60 + rank) with rank counted from 1; only ids of
\* the input lists appear, once each, so the output is no longer than the
\* input lists together.
C4_FusedScoreIsSum ==
    res.op = "fuse" =>
        LET lists == arg.ranked_lists
            out   == res.fused
        IN  /\ \A i \in DOMAIN out :
                  /\ out[i].atomic_unit_id \in InputIds(lists)
                  /\ out[i].score =
                        SumOver(Occurrences(lists, out[i].atomic_unit_id),
                                lists, arg.weights)
            /\ \A i, j \in DOMAIN out :
                  out[i].atomic_unit_id = out[j].atomic_unit_id => i = j
            /\ {out[i].atomic_unit_id : i \in DOMAIN out} = InputIds(lists)
            /\ Len(out) <= Len(lists[1]) + Len(lists[2])

\* the spec's scenario: fuse([[a, b], [b, c]], weights 0.6 / 0.4) ranks b first
C4_Witness ==
    /\ res.op = "fuse"
    /\ Len(arg.ranked_lists[1]) = 2 /\ Len(arg.ranked_lists[2]) = 2
    /\ arg.ranked_lists[1][1].atomic_unit_id = "a"
    /\ arg.ranked_lists[1][2].atomic_unit_id = "b"
    /\ arg.ranked_lists[2][1].atomic_unit_id = "b"
    /\ arg.ranked_lists[2][2].atomic_unit_id = "c"
    /\ arg.weights = <<3, 2>>
    /\ Len(res.fused) = 3
    /\ res.fused[1].atomic_unit_id = "b"
    /\ res.fused[1].score = 3 * (Scale \div (5 * 62)) + 2 * (Scale \div (5 * 61))

----------------------------------------------------------------------------
(* MultilingualTokenizer.tokenize (services/tokenizer.py).  A text is a   *)
(* sequence of words; the words of the model are listed here with what    *)
(* str.lower, str.isdigit and len make of them.                           *)

Lower(w) ==
    CASE w = "Article" -> "article"
      [] w = "Section" -> "section"
      [] w = "See"     -> "see"
      [] w = "Payment" -> "payment"
      [] w = "What"    -> "what"
      [] w = "TAX"     -> "tax"
      [] w = "X"       -> "x"
      [] w = "Va"      -> "va"
      [] OTHER         -> w

IsDigit(w) == w \in {"27", "5", "3"}

IsShort(w) == w \in {"x", "5", "3", "o", "u"}

(* _get_uzbek_stopwords: the part of the stopword set the source spells out *)
Stopwords == {"va", "yoki", "lekin", "uchun", "bilan", "dan", "ga", "ni", "bu",
              "shu", "o", "u", "ham"}

tokenize(text) ==
    LET lowered == [i \in DOMAIN text |-> Lower(text[i])]
        kept    == SelectSeq(lowered, LAMBDA t : t \notin Stopwords)
    IN  SelectSeq(kept, LAMBDA t : ~IsShort(t) \/ IsDigit(t))

----------------------------------------------------------------------------
(* BM25Okapi(corpus_tokens).get_scores(query_tokens), as called by        *)
(* BM25Service.search; k1 = 1.5, b = 0.75, epsilon = 0.25.  Scores are    *)
(* computed in thousandths and then brought to the scale.                  *)

(* 1000 * ln(k + 0.5), k = 0, 1, 2, ... *)
LnHalfMilli(k) == <<-693, 405, 916, 1253, 1504, 1705, 1872, 2015>>[k + 1]

TermFreq(doc, word) == Cardinality({i \in DOMAIN doc : doc[i] = word})

DocFreq(corpus, word) == Cardinality({i \in DOMAIN corpus : TermFreq(corpus[i], word) > 0})

CorpusWords(corpus) == UNION {Range(corpus[i]) : i \in DOMAIN corpus}

RawIdf(corpus, word) ==
    LnHalfMilli(Len(corpus) - DocFreq(corpus, word)) - LnHalfMilli(DocFreq(corpus, word))

RECURSIVE SetSum(_, _, _)
SetSum(S, corpus, dummy) ==
    IF S = {} THEN 0
    ELSE LET w == CHOOSE x \in S : TRUE
         IN  RawIdf(corpus, w) + SetSum(S \ {w}, corpus, dummy)

(* _calc_idf: a negative idf is replaced by epsilon * average_idf *)
Idf(corpus, word) ==
    IF word \notin CorpusWords(corpus) THEN 0
    ELSE IF RawIdf(corpus, word) < 0
         THEN (SetSum(CorpusWords(corpus), corpus, 0)
                  \div Cardinality(CorpusWords(corpus))) \div 4
         ELSE RawIdf(corpus, word)

TotalTokens(corpus) == SeqSum([i \in DOMAIN corpus |-> Len(corpus[i])])

(* idf * f * (k1 + 1) / (f + k1 * (1 - b + b * dl / avgdl)), in thousandths *)
TermScore(corpus, doc, word) ==
    LET f     == TermFreq(doc, word)
        total == TotalTokens(corpus)
    IN  (Idf(corpus, word) * 20 * f * total)
            \div (8 * f * total + 3 * total + 9 * Len(doc) * Len(corpus))

DocScoreMilli(corpus, doc, query_tokens) ==
    SeqSum([q \in DOMAIN query_tokens |-> TermScore(corpus, doc, query_tokens[q])])

get_scores(corpus, query_tokens) ==
    [i \in DOMAIN corpus |->
        DocScoreMilli(corpus, corpus[i], query_tokens) * (Scale \div 1000)]

----------------------------------------------------------------------------
(* BM25Service.search, steps 2-6, on loaded index data: the result is a   *)
(* list of [atomic_unit_id, score, metadata], or the BM25Error the        *)
(* except clause raises when BM25Okapi divides by zero (no token at all   *)
(* in the corpus).                                                         *)

TopIndicesUnstable(scores, top_k) ==
    LET idx == [i \in DOMAIN scores |-> [idx |-> Len(scores) + 1 - i,
                                         score |-> scores[Len(scores) + 1 - i]]]
    IN  Prefix(SortByScoreDesc(idx), top_k)

TopIndices(scores, top_k) ==
    LET idx == [i \in DOMAIN scores |-> [idx |-> i, score |-> scores[i]]]
    IN  Prefix(SortByScoreDesc(idx), top_k)

PositiveScore(score) == score > 0

bm25_search(index_data, query_tokens, top_k) ==
    IF CorpusWords(index_data.corpus_tokens) = {}
    THEN [kind |-> "BM25Error", results |-> <<>>]
    ELSE LET scores == get_scores(index_data.corpus_tokens, query_tokens)
             top    == TopIndices(scores, top_k)
             kept   == SelectSeq(top, LAMBDA t : PositiveScore(t.score))
         IN  [kind    |-> "ok",
              results |-> [i \in DOMAIN kept |->
                            [atomic_unit_id |-> index_data.doc_ids[kept[i].idx],
                             score          |-> kept[i].score,
                             metadata       |-> index_data.doc_metadata[kept[i].idx]]]]

----------------------------------------------------------------------------
(* SpecBM25: search over every small stored index *)

MaxDocs == 3            \* documents in a stored index of SpecBM25

MaxTopK == 2            \* largest top_k asked of search in SpecBM25

BM25Docs == {<<>>, <<"article">>, <<"27">>, <<"article", "27">>,
             <<"article", "article">>, <<"payment", "terms">>}

BM25Queries == {<<>>, <<"article">>, <<"27">>, <<"article", "27">>, <<"tax">>,
                <<"payment", "27">>, <<"article", "payment">>}

BM25IndexData(corpus) ==
    [corpus_tokens  |-> corpus,
     doc_ids        |-> [i \in DOMAIN corpus |-> i],
     doc_metadata   |-> [i \in DOMAIN corpus |-> [sequence |-> i]],
     document_count |-> Len(corpus),
     total_tokens   |-> TotalTokens(corpus)]

BM25Init ==
    /\ \E n \in 1..MaxDocs : \E corpus \in [1..n -> BM25Docs] :
       \E q \in BM25Queries, top_k \in 1..MaxTopK :
          arg = [op |-> "search", index_data |-> BM25IndexData(corpus),
                 query_tokens |-> q, top_k |-> top_k]
    /\ res = NoCall
    /\ NoSystem

BM25SearchCall ==
    /\ arg.op = "search" /\ res = NoCall
    /\ res' = [op |-> "search"] @@ bm25_search(arg.index_data, arg.query_tokens, arg.top_k)
    /\ UNCHANGED <<arg, sysvars>>

SpecBM25 == BM25Init /\ [][BM25SearchCall]_vars

----------------------------------------------------------------------------
(* C3  BM25 search results *)

(* document i ranks before document j: higher score, or the same score    *)
(* and earlier in the corpus                                               *)
RanksBefore(scores, i, j) ==
    \/ scores[i] > scores[j]
    \/ scores[i] = scores[j] /\ i < j

\* C3: search returns at most top_k results with scores non-increasing and
\* all > 0; they are the top_k highest-scoring documents, ties broken by
\* corpus order; the list is determined by (index, query, top_k) alone, so
\* a repeated call returns the identical list.
C3_BM25TopK ==
    (res.op = "search" /\ res.kind = "ok") =>
        LET scores == get_scores(arg.index_data.corpus_tokens, arg.query_tokens)
            out    == res.results
            N      == Len(scores)
            \* the documents with fewer than top_k documents ranked before them
            best   == {i \in 1..N : scores[i] > 0 /\
                          Cardinality({j \in 1..N : RanksBefore(scores, j, i)}) < arg.top_k}
        IN  /\ Len(out) <= arg.top_k
            /\ \A i \in DOMAIN out : out[i].score > 0
            /\ \A i \in DOMAIN out : i > 1 => out[i - 1].score >= out[i].score
            /\ {out[i].atomic_unit_id : i \in DOMAIN out} = best
            /\ Len(out) = Cardinality(best)
            /\ \A i \in DOMAIN out :
                  /\ out[i].score = scores[out[i].atomic_unit_id]
                  /\ i > 1 => RanksBefore(scores, out[i - 1].atomic_unit_id,
                                          out[i].atomic_unit_id)

\* a search whose last result ties, at a positive score, with a document that
\* comes later in the corpus and is left out by top_k
C3_Witness ==
    /\ res.op = "search" /\ res.kind = "ok"
    /\ Len(res.results) = arg.top_k
    /\ \E i \in DOMAIN arg.index_data.corpus_tokens :
          /\ \A r \in DOMAIN res.results : res.results[r].atomic_unit_id # i
          /\ i > res.results[arg.top_k].atomic_unit_id
          /\ get_scores(arg.index_data.corpus_tokens, arg.query_tokens)[i]
                = res.results[arg.top_k].score

----------------------------------------------------------------------------
(* GraphBuilder (services/graph/graph_builder.py).  A unit is a record    *)
(* [id, unit_type, text, level, sequence, document_id]; its text is a     *)
(* sequence of words.                                                      *)

GraphNode(unit) ==
    [node_id |-> unit.id, node_type |-> unit.unit_type, text |-> unit.text,
     level |-> unit.level, sequence |-> unit.sequence,
     document_id |-> unit.document_id]

(* nodes[node.node_id] = node for each unit in order: a later unit with   *)
(* the same id replaces the earlier one                                    *)
create_nodes(units) ==
    [id \in {units[i].id : i \in DOMAIN units} |->
        LET last == CHOOSE i \in DOMAIN units :
                       /\ units[i].id = id
                       /\ \A j \in DOMAIN units : units[j].id = id => j <= i
        IN  GraphNode(units[last])]

(* key order of the nodes dict: first insertion of each id *)
NodeOrder(units) ==
    LET firsts == SelectSeq([i \in DOMAIN units |-> i],
                      LAMBDA i : \A j \in 1..(i - 1) : units[j].id # units[i].id)
    IN  [k \in DOMAIN firsts |-> units[firsts[k]].id]

ContainsEdge(parent_id, unit_id) ==
    [source_id |-> parent_id, target_id |-> unit_id, edge_type |-> "CONTAINS",
     metadata |-> [hierarchy |-> TRUE]]

PopsOnlyDeeper(top_level, unit_level) == top_level > unit_level

(* while parent_stack and parent_stack[-1][0] >= unit.level: pop *)
PopsParent(top_level, unit_level) == top_level >= unit_level

(* an if in the place of the while: at most one entry is popped *)
PopParentOnce(parent_stack, level) ==
    IF parent_stack # <<>> /\ PopsParent(parent_stack[Len(parent_stack)][1], level)
    THEN SubSeq(parent_stack, 1, Len(parent_stack) - 1)
    ELSE parent_stack

RECURSIVE PopParents(_, _)
PopParents(parent_stack, level) ==
    IF parent_stack # <<>> /\ PopsParent(parent_stack[Len(parent_stack)][1], level)
    THEN PopParents(SubSeq(parent_stack, 1, Len(parent_stack) - 1), level)
    ELSE parent_stack

RECURSIVE HierarchyLoop(_, _, _, _)
HierarchyLoop(units, i, parent_stack, edges) ==
    IF i > Len(units) THEN edges
    ELSE LET unit   == units[i]
             stack  == PopParents(parent_stack, unit.level)
             edges2 == IF stack # <<>>
                       THEN Append(edges, ContainsEdge(stack[Len(stack)][2], unit.id))
                       ELSE edges
         IN  HierarchyLoop(units, i + 1, Append(stack, <<unit.level, unit.id>>), edges2)

create_hierarchy_edges(units) == HierarchyLoop(units, 1, <<>>, <<>>)

NextEdge(a, b) ==
    [source_id |-> a, target_id |-> b, edge_type |-> "NEXT",
     metadata |-> [sequence_gap |-> 1]]

SequencePairsShort(n) == n - 2

(* range(len(atomic_units) - 1) *)
SequencePairs(n) == n - 1

create_sequence_edges(units) ==
    [i \in 1..SequencePairs(Len(units)) |-> NextEdge(units[i].id, units[i + 1].id)]

HeadingTypes == {"heading", "section"}

(* re.findall(r"\d+", text) *)
Numbers(text) == SelectSeq(text, LAMBDA w : IsDigit(w))

RefKeywords == {"Article", "article", "Section", "section", "Clause", "clause",
                "Modda", "modda"}

(* re.finditer(combined_pattern, text): keyword, whitespace, digits *)
ReferenceMatches(text) ==
    LET at == SelectSeq([i \in DOMAIN text |-> i],
                  LAMBDA i : /\ text[i] \in RefKeywords
                             /\ i + 1 <= Len(text)
                             /\ IsDigit(text[i + 1]))
    IN  [k \in DOMAIN at |-> [reference_text |-> <<text[at[k]], text[at[k] + 1]>>,
                              reference_number |-> text[at[k] + 1]]]

(* heading_lookup[numbers[0]] = node.node_id, for the nodes in dict order *)
RECURSIVE HeadingLookupLoop(_, _, _, _)
HeadingLookupLoop(nodes, order, k, lookup) ==
    IF k > Len(order) THEN lookup
    ELSE LET node    == nodes[order[k]]
             numbers == Numbers(node.text)
         IN  IF node.node_type \in HeadingTypes /\ numbers # <<>>
             THEN HeadingLookupLoop(nodes, order, k + 1,
                      [n \in DOMAIN lookup \cup {numbers[1]} |->
                          IF n = numbers[1] THEN node.node_id ELSE lookup[n]])
             ELSE HeadingLookupLoop(nodes, order, k + 1, lookup)

heading_lookup(nodes, order) == HeadingLookupLoop(nodes, order, 1, <<>>)

RefersToEdge(unit_id, target_id, m) ==
    [source_id |-> unit_id, target_id |-> target_id, edge_type |-> "REFERS_TO",
     metadata |-> m]

AllowsSelfReference(unit_id, target_id) == TRUE

(* if str(unit.id) != target_id *)
NotSelfReference(unit_id, target_id) == unit_id # target_id

UnitReferenceEdges(unit, lookup) ==
    LET matches == ReferenceMatches(unit.text)
        hits    == SelectSeq(matches,
                      LAMBDA m : /\ m.reference_number \in DOMAIN lookup
                                 /\ NotSelfReference(unit.id, lookup[m.reference_number]))
    IN  [k \in DOMAIN hits |->
            RefersToEdge(unit.id, lookup[hits[k].reference_number], hits[k])]

RECURSIVE ReferenceLoop(_, _, _, _)
ReferenceLoop(units, i, lookup, edges) ==
    IF i > Len(units) THEN edges
    ELSE ReferenceLoop(units, i + 1, lookup,
                       edges \o UnitReferenceEdges(units[i], lookup))

create_reference_edges(units, nodes) ==
    ReferenceLoop(units, 1, heading_lookup(nodes, NodeOrder(units)), <<>>)

build_graph(units) ==
    IF units = <<>> THEN [nodes |-> <<>>, edges |-> <<>>]
    ELSE LET nodes == create_nodes(units)
         IN  [nodes |-> nodes,
              edges |-> create_hierarchy_edges(units)
                        \o create_sequence_edges(units)
                        \o create_reference_edges(units, nodes)]

----------------------------------------------------------------------------
(* SpecGraph: build_graph applied to every short unit sequence *)

MaxUnits == 3           \* units handed to build_graph in SpecGraph

MaxLevel == 2           \* deepest nesting level of a unit in SpecGraph

GraphTexts == {<<"Article", "27", "states", "X">>, <<"Payment", "terms">>,
               <<"See", "Article", "27">>}

GraphUnitTypes == {"heading", "paragraph"}

GraphUnit(i, f) ==
    [id |-> i, unit_type |-> f[1], text |-> f[2], level |-> f[3],
     sequence |-> i, document_id |-> "d1"]

GraphInit ==
    /\ \E n \in 0..MaxUnits :
       \E f \in [1..n -> GraphUnitTypes \X GraphTexts \X (0..MaxLevel)] :
          arg = [op |-> "build_graph",
                 atomic_units |-> [i \in 1..n |-> GraphUnit(i, f[i])]]
    /\ res = NoCall
    /\ NoSystem

BuildGraphCall ==
    /\ arg.op = "build_graph" /\ res = NoCall
    /\ res' = [op |-> "build_graph"] @@ build_graph(arg.atomic_units)
    /\ UNCHANGED <<arg, sysvars>>

SpecGraph == GraphInit /\ [][BuildGraphCall]_vars

EdgesOfType(edges, type) == SelectSeq(edges, LAMBDA e : e.edge_type = type)

----------------------------------------------------------------------------
(* C5  CONTAINS forest validity *)

(* nodes reachable from a by one or more CONTAINS edges, found in rounds *)
RECURSIVE ReachFrom(_, _, _)
ReachFrom(frontier, E, n) ==
    IF n = 0 THEN {}
    ELSE LET next == {e[2] : e \in {x \in E : x[1] \in frontier}}
         IN  next \cup ReachFrom(next, E, n - 1)

\* C5: every CONTAINS edge leads from a strictly lower level to a higher
\* one, no unit is the target of two CONTAINS edges, and no unit reaches
\* itself along CONTAINS edges.
C5_ContainsForest ==
    res.op = "build_graph" =>
        LET units    == arg.atomic_units
            contains == EdgesOfType(res.edges, "CONTAINS")
            E        == {<<contains[k].source_id, contains[k].target_id>> :
                            k \in DOMAIN contains}
        IN  /\ \A k \in DOMAIN contains :
                  /\ contains[k].source_id \in DOMAIN units
                  /\ contains[k].target_id \in DOMAIN units
                  /\ units[contains[k].source_id].level
                        < units[contains[k].target_id].level
            /\ \A k, l \in DOMAIN contains :
                  contains[k].target_id = contains[l].target_id => k = l
            /\ \A u \in DOMAIN units : u \notin ReachFrom({u}, E, Len(units))

\* a two-level chain under one root and a sibling that pops the stack
C5_Witness ==
    /\ res.op = "build_graph"
    /\ Len(arg.atomic_units) = 3
    /\ arg.atomic_units[1].level = 0
    /\ arg.atomic_units[2].level = 1
    /\ arg.atomic_units[3].level = 1
    /\ Len(EdgesOfType(res.edges, "CONTAINS")) = 2
    /\ \A k \in 1..2 : EdgesOfType(res.edges, "CONTAINS")[k].source_id = 1

----------------------------------------------------------------------------
(* C6  NEXT chain completeness *)

\* C6: for N >= 1 units the NEXT edges are exactly unit[i] -> unit[i+1] for
\* i = 1..N-1, in order; for no units there are no nodes and no edges.
C6_NextChain ==
    res.op = "build_graph" =>
        LET units == arg.atomic_units
            next  == EdgesOfType(res.edges, "NEXT")
            N     == Len(units)
        IN  /\ N >= 1 => /\ Len(next) = N - 1
                         /\ \A i \in 1..(N - 1) :
                               /\ next[i].source_id = units[i].id
                               /\ next[i].target_id = units[i + 1].id
            /\ N = 0 => (res.nodes = <<>> /\ res.edges = <<>>)

C6_Witness ==
    /\ res.op = "build_graph"
    /\ Len(arg.atomic_units) = 3
    /\ Len(EdgesOfType(res.edges, "NEXT")) = 2

----------------------------------------------------------------------------
(* C8  REFERS_TO emission *)

\* C8: a unit whose text holds a reference to a number of the heading
\* lookup gets a REFERS_TO edge to the looked-up node unless it is that
\* node; REFERS_TO edges are never self-loops, always end at a
\* heading/section node, and each stems from such a reference.
C8_RefersTo ==
    res.op = "build_graph" =>
        LET units  == arg.atomic_units
            refs   == EdgesOfType(res.edges, "REFERS_TO")
            lookup == heading_lookup(res.nodes, NodeOrder(units))
        IN  /\ \A i \in DOMAIN units :
                  \A w \in 1..(Len(units[i].text) - 1) :
                     LET number == units[i].text[w + 1] IN
                     (/\ units[i].text[w] \in RefKeywords
                      /\ IsDigit(number)
                      /\ number \in DOMAIN lookup
                      /\ lookup[number] # units[i].id)
                     => \E k \in DOMAIN refs :
                           /\ refs[k].source_id = units[i].id
                           /\ refs[k].target_id = lookup[number]
                           /\ refs[k].metadata.reference_number = number
            /\ \A k \in DOMAIN refs :
                  /\ refs[k].source_id # refs[k].target_id
                  /\ refs[k].target_id \in DOMAIN res.nodes
                  /\ res.nodes[refs[k].target_id].node_type \in HeadingTypes
                  /\ \E n \in DOMAIN lookup :
                        /\ lookup[n] = refs[k].target_id
                        /\ refs[k].metadata.reference_number = n

\* the spec's scenario: [heading "Article 27 states X", "Payment terms",
\* "See Article 27"] yields exactly the REFERS_TO edge unit 3 -> unit 1
C8_Witness ==
    /\ res.op = "build_graph"
    /\ Len(arg.atomic_units) = 3
    /\ arg.atomic_units[1].unit_type = "heading"
    /\ arg.atomic_units[1].text = <<"Article", "27", "states", "X">>
    /\ arg.atomic_units[2].text = <<"Payment", "terms">>
    /\ arg.atomic_units[3].text = <<"See", "Article", "27">>
    /\ arg.atomic_units[2].unit_type = "paragraph"
    /\ arg.atomic_units[3].unit_type = "paragraph"
    /\ Len(EdgesOfType(res.edges, "REFERS_TO")) = 1
    /\ EdgesOfType(res.edges, "REFERS_TO")[1].source_id = 3
    /\ EdgesOfType(res.edges, "REFERS_TO")[1].target_id = 1

----------------------------------------------------------------------------
(* GraphService.get_neighbors, lines 122-153, on a loaded graph            *)
(* [nodes: node_id -> node, edges: list of edges].  edge_type is "None"   *)
(* for no filter.  st = [visited, next_layer, neighbors].                  *)

VisitedEmpty(node_id) == {}

(* visited = {node_id} *)
VisitedStart(node_id) == {node_id}

(* a test that ignores the edge type asked for *)
EdgeMatchesAnyType(edge, current_id, edge_type) == edge.source_id = current_id

EdgeMatches(edge, current_id, edge_type) ==
    /\ edge.source_id = current_id
    /\ (edge_type = "None" \/ edge.edge_type = edge_type)

RECURSIVE EdgeLoop(_, _, _, _, _, _)
EdgeLoop(graph, current_id, edge_type, hop, k, st) ==
    IF k > Len(graph.edges) THEN st
    ELSE LET edge      == graph.edges[k]
             target_id == edge.target_id
             st2 == IF EdgeMatches(edge, current_id, edge_type)
                       /\ target_id \notin st.visited
                    THEN [visited    |-> st.visited \cup {target_id},
                          next_layer |-> Append(st.next_layer, target_id),
                          neighbors  |->
                             IF target_id \in DOMAIN graph.nodes
                             THEN Append(st.neighbors,
                                         [node     |-> graph.nodes[target_id],
                                          edge     |-> edge,
                                          distance |-> hop + 1])
                             ELSE st.neighbors]
                    ELSE st
         IN  EdgeLoop(graph, current_id, edge_type, hop, k + 1, st2)

RECURSIVE LayerLoop(_, _, _, _, _, _)
LayerLoop(graph, current_layer, i, edge_type, hop, st) ==
    IF i > Len(current_layer) THEN st
    ELSE LayerLoop(graph, current_layer, i + 1, edge_type, hop,
                   EdgeLoop(graph, current_layer[i], edge_type, hop, 1, st))

(* for hop in range(hops) *)
RECURSIVE HopLoop(_, _, _, _, _, _, _)
HopLoop(graph, edge_type, hop, hops, current_layer, visited, neighbors) ==
    IF hop >= hops THEN neighbors
    ELSE LET st == LayerLoop(graph, current_layer, 1, edge_type, hop,
                             [visited |-> visited, next_layer |-> <<>>,
                              neighbors |-> neighbors])
         IN  HopLoop(graph, edge_type, hop + 1, hops, st.next_layer,
                     st.visited, st.neighbors)

neighbors_of(graph, node_id, edge_type, hops) ==
    HopLoop(graph, edge_type, 0, hops, <<node_id>>, VisitedStart(node_id), <<>>)

----------------------------------------------------------------------------
(* SpecNeighbors: the neighbor query on every small stored graph, from    *)
(* node 1                                                                   *)

MaxEdges == 3           \* edges of a stored graph in SpecNeighbors

MaxHops == 2            \* largest hops asked of get_neighbors in SpecNeighbors

NbrNodeIds == {1, 2, 3}

NbrEdgeTypes == {"CONTAINS", "NEXT"}

NbrNode(id) ==
    [node_id |-> id, node_type |-> "paragraph", text |-> <<>>, level |-> 0,
     sequence |-> id, document_id |-> "d1"]

NbrEdge(e) == [source_id |-> e[1], target_id |-> e[2], edge_type |-> e[3]]

NeighborsInit ==
    /\ \E n \in 0..MaxEdges :
       \E f \in [1..n -> NbrNodeIds \X NbrNodeIds \X NbrEdgeTypes] :
       \E hops \in 0..MaxHops, edge_type \in {"None", "NEXT"} :
          arg = [op |-> "get_neighbors",
                 graph |-> [nodes |-> [id \in NbrNodeIds |-> NbrNode(id)],
                            edges |-> [i \in 1..n |-> NbrEdge(f[i])]],
                 node_id |-> 1, edge_type |-> edge_type, hops |-> hops]
    /\ res = NoCall
    /\ NoSystem

GetNeighborsCall ==
    /\ arg.op = "get_neighbors" /\ res = NoCall
    /\ res' = [op |-> "get_neighbors",
               neighbors |-> neighbors_of(arg.graph, arg.node_id, arg.edge_type, arg.hops)]
    /\ UNCHANGED <<arg, sysvars>>

SpecNeighbors == NeighborsInit /\ [][GetNeighborsCall]_vars

----------------------------------------------------------------------------
(* C7  Neighbor query bounds *)

\* C7: neighbors never returns the start node, never a distance outside
\* 1..hops, and never the same node twice.
C7_NeighborBounds ==
    res.op = "get_neighbors" =>
        LET out == res.neighbors
        IN  /\ \A k \in DOMAIN out :
                  /\ out[k].node.node_id # arg.node_id
                  /\ out[k].distance >= 1
                  /\ out[k].distance <= arg.hops
            /\ \A k, l \in DOMAIN out :
                  out[k].node.node_id = out[l].node.node_id => k = l

\* a graph with a cycle through the start node and two edges into one node:
\* both other nodes are returned, the farther one at distance 2
C7_Witness ==
    /\ res.op = "get_neighbors"
    /\ arg.hops = 2
    /\ \E i, j, k \in DOMAIN arg.graph.edges :
          /\ arg.graph.edges[i].source_id = 1 /\ arg.graph.edges[i].target_id = 2
          /\ arg.graph.edges[j].source_id = 2 /\ arg.graph.edges[j].target_id = 1
          /\ arg.graph.edges[k].source_id = 2 /\ arg.graph.edges[k].target_id = 3
    /\ Len(res.neighbors) = 2
    /\ res.neighbors[2].node.node_id = 3
    /\ res.neighbors[2].distance = 2

(***************************************************************************)
(* Query analyzer (services/router/query_analyzer.py).  A query is the     *)
(* sequence of its whitespace-separated words; the character-level tests   *)
(* of the code are tabulated per word of the vocabulary.                   *)
(***************************************************************************)

QueryWords == {"What", "is", "Article", "27", "27?", "TAX"}

\* re.search(r"\d+", w)
WordHasDigit(w) == w \in {"27", "27?"}

\* the word starts with a digit, so that "<keyword>\s+\d+" matches across it
WordStartsWithDigit(w) == w \in {"27", "27?"}

\* one of the question words is a substring of w.lower()
WordHasQuestionWord(w) == w \in {"What"}

WordHasQuestionMark(w) == w \in {"27?"}

\* "\b[Aa]rticle" ... followed by white space: the word is the keyword itself
WordIsReferenceKeyword(w) == w \in {"Article"}

WordHasLowerCase(w) == w \in {"What", "is", "Article"}

WordHasUpperCase(w) == w \in {"What", "Article", "TAX"}

WordHasQuote(w) == FALSE

WordIsCamelCase(w) == FALSE

WordHasDashOrUnderscore(w) == FALSE

has_numbers_of(query) == \E i \in DOMAIN query : WordHasDigit(query[i])

has_exact_phrases_of(query) == \E i \in DOMAIN query : WordHasQuote(query[i])

has_question_words(query) ==
    \/ \E i \in DOMAIN query : WordHasQuestionWord(query[i])
    \/ \E i \in DOMAIN query : WordHasQuestionMark(query[i])

has_references(query) ==
    \E i \in DOMAIN query :
        /\ i + 1 \in DOMAIN query
        /\ WordIsReferenceKeyword(query[i])
        /\ WordStartsWithDigit(query[i + 1])

\* str.isupper(): no lower-case character and at least one upper-case one
isupper(query) ==
    /\ \A i \in DOMAIN query : ~WordHasLowerCase(query[i])
    /\ \E i \in DOMAIN query : WordHasUpperCase(query[i])

has_technical_terms(query) ==
    \E i \in DOMAIN query :
        \/ WordIsCamelCase(query[i])
        \/ isupper(<<query[i]>>)   \* every word here has len(word) > 1
        \/ WordHasDashOrUnderscore(query[i])

detect_language(lang_code) ==
    IF lang_code \in {"uz", "ru", "en"} THEN lang_code ELSE "unknown"

Classified(query_type, confidence) ==
    [query_type |-> query_type, confidence |-> confidence]

\* the same rules with the question rule tried before the reference rule
classify_question_first(query, has_refs, has_question, has_numbers, word_count) ==
    IF has_question /\ word_count > 3 THEN Classified("semantic_question", 85)
    ELSE IF has_refs THEN Classified("exact_reference", 90)
    ELSE IF word_count <= 3 /\ (has_numbers \/ isupper(query))
         THEN Classified("keyword_search", 75)
    ELSE IF word_count > 3 THEN Classified("hybrid_query", 60)
    ELSE Classified("unclear", 30)

\* confidence in hundredths
classify_query_type(query, has_refs, has_question, has_numbers, word_count) ==
    IF has_refs THEN Classified("exact_reference", 90)
    ELSE IF has_question /\ word_count > 3 THEN Classified("semantic_question", 85)
    ELSE IF word_count <= 3 /\ (has_numbers \/ isupper(query))
         THEN Classified("keyword_search", 75)
    ELSE IF word_count > 3 THEN Classified("hybrid_query", 60)
    ELSE Classified("unclear", 30)

analyze(query, lang_code) ==
    LET word_count == Len(query)
        has_numbers == has_numbers_of(query)
        has_question == has_question_words(query)
        has_refs == has_references(query)
        c == classify_query_type(query, has_refs, has_question, has_numbers,
                                 word_count)
    IN  [query_type |-> c.query_type,
         language |-> detect_language(lang_code),
         has_numbers |-> has_numbers,
         has_exact_phrases |-> has_exact_phrases_of(query),
         has_question_words |-> has_question,
         word_count |-> word_count,
         contains_technical_terms |-> has_technical_terms(query),
         confidence |-> c.confidence]

(***************************************************************************)
(* Routing strategy (services/router/routing_strategy.py).  Thresholds in  *)
(* hundredths.                                                             *)
(***************************************************************************)

ConfigGet(chat_config, key, default) ==
    IF key \in DOMAIN chat_config THEN chat_config[key] ELSE default

Decision(mode, top_k, threshold, expand, hops, reasoning, query_chars, strictness, purpose) ==
    [selected_mode |-> mode, top_k |-> top_k, score_threshold |-> threshold,
     expand_with_neighbors |-> expand, neighbor_hops |-> hops,
     reasoning |-> reasoning, query_characteristics |-> query_chars,
     chat_strictness |-> strictness, chat_purpose |-> purpose]

handle_exact_reference(query_chars, strictness, purpose) ==
    Decision("graph_enhanced", 10, 20, TRUE, 2,
             "Detected exact reference (article/section number).",
             query_chars, strictness, purpose)

handle_keyword_search(query_chars, strictness, purpose) ==
    Decision("sparse_only", 15, 0, FALSE, 0,
             "Detected keyword search (short query with technical terms).",
             query_chars, strictness, purpose)

\* the strict parameters whatever the strictness
SemanticAlwaysStrict(strictness) == TRUE

SemanticIsStrict(strictness) == strictness = "strict_docs_only"

handle_semantic_question(query_chars, strictness, purpose) ==
    LET top_k == IF SemanticIsStrict(strictness) THEN 8 ELSE 12
        threshold == IF SemanticIsStrict(strictness) THEN 40 ELSE 30
    IN  Decision("hybrid", top_k, threshold, TRUE, 1,
                 "Detected semantic question.",
                 query_chars, strictness, purpose)

handle_hybrid_query(query_chars, strictness, purpose) ==
    Decision("hybrid", 10, 35, FALSE, 0,
             "General query with mixed characteristics.",
             query_chars, strictness, purpose)

handle_unclear(query_chars, strictness, purpose) ==
    Decision("hybrid", 10, 30, FALSE, 0,
             "Query type unclear.",
             query_chars, strictness, purpose)

decide(query_chars, chat_config) ==
    LET strictness == ConfigGet(chat_config, "strictness", "strict_docs_only")
        purpose == ConfigGet(chat_config, "purpose", "general")
    IN  IF query_chars.query_type = "exact_reference"
        THEN handle_exact_reference(query_chars, strictness, purpose)
        ELSE IF query_chars.query_type = "keyword_search"
        THEN handle_keyword_search(query_chars, strictness, purpose)
        ELSE IF query_chars.query_type = "semantic_question"
        THEN handle_semantic_question(query_chars, strictness, purpose)
        ELSE IF query_chars.query_type = "hybrid_query"
        THEN handle_hybrid_query(query_chars, strictness, purpose)
        ELSE handle_unclear(query_chars, strictness, purpose)

(***************************************************************************)
(* Specification of the router's two steps on one request: analyze the     *)
(* query, then decide on its characteristics and the chat configuration.   *)
(***************************************************************************)

MaxQueryWords == 4

LangCodes == {"uz", "en", "fr"}

ChatConfigs ==
    {[strictness |-> "strict_docs_only", purpose |-> "policy_qa"],
     [strictness |-> "allow_reasoning", purpose |-> "policy_qa"],
     [purpose |-> "policy_qa"],
     [strictness |-> "allow_reasoning"]}

(* AdaptiveRouter.  force_mode "None" and force_top_k 0 stand for an       *)
(* override that is not supplied (None, or a value that is falsy).  db is  *)
(* what the database answers to the first and to the second execute of the *)
(* chat query: "found", "not_found", or the error it raises.               *)

ForceModes == {"None", "sparse_only"}

ForceTopKs == {0, 7}

DbAnswers ==
    {<<"found", "found">>, <<"not_found", "not_found">>,
     <<"InFailedSqlTransaction", "found">>,
     <<"InFailedSqlTransaction", "OperationalError">>,
     <<"OperationalError", "found">>}

(* the dict built from the chat row, or the error raised *)
ChatLoaded(chat, answer, executes, rollbacks) ==
    IF answer = "found"
    THEN [kind |-> "ok", executes |-> executes, rollbacks |-> rollbacks,
          chat_config |-> [strictness |-> ConfigGet(chat, "strictness", "None"),
                           purpose    |-> ConfigGet(chat, "purpose", "None")]]
    ELSE [kind |-> IF answer = "not_found" THEN "ValueError" ELSE answer,
          executes |-> executes, rollbacks |-> rollbacks, chat_config |-> <<>>]

(* AdaptiveRouter._load_chat_config: a query that fails because the        *)
(* transaction is aborted is issued again after a rollback                 *)
load_chat_config(chat, db) ==
    IF db[1] = "InFailedSqlTransaction"
    THEN ChatLoaded(chat, db[2], 2, 1)
    ELSE ChatLoaded(chat, db[1], 1, 0)

(* 4. apply manual overrides if provided *)
apply_overrides(decision, force_mode, force_top_k) ==
    [decision EXCEPT
        !.selected_mode = IF force_mode # "None" THEN force_mode ELSE @,
        !.reasoning = IF force_mode # "None"
                      THEN @ \o " (Manually overridden)" ELSE @,
        !.top_k = IF force_top_k # 0 THEN force_top_k ELSE @]

Routed(query_chars, loaded, force_mode, force_top_k) ==
    IF loaded.kind # "ok"
    THEN [kind |-> "RouterError", cause |-> loaded.kind,
          executes |-> loaded.executes, rollbacks |-> loaded.rollbacks]
    ELSE [kind |-> "ok", executes |-> loaded.executes,
          rollbacks |-> loaded.rollbacks,
          decision |-> apply_overrides(decide(query_chars, loaded.chat_config),
                                       force_mode, force_top_k)]

(* AdaptiveRouter.route *)
route(query, lang_code, chat, force_mode, force_top_k, db) ==
    Routed(analyze(query, lang_code), load_chat_config(chat, db),
           force_mode, force_top_k)

RouterInit ==
    /\ \E query \in SeqsUpTo(QueryWords, MaxQueryWords) :
       \E lang_code \in LangCodes, chat_config \in ChatConfigs :
          arg = [op |-> "route", query |-> query, lang_code |-> lang_code,
                 chat_config |-> chat_config]
    /\ res = NoCall
    /\ NoSystem

AnalyzeCall ==
    /\ arg.op = "route" /\ res = NoCall
    /\ res' = [op |-> "analyze",
               characteristics |-> analyze(arg.query, arg.lang_code)]
    /\ UNCHANGED <<arg, sysvars>>

DecideCall ==
    /\ arg.op = "route" /\ res.op = "analyze"
    /\ res' = [op |-> "decide",
               decision |-> decide(res.characteristics, arg.chat_config)]
    /\ UNCHANGED <<arg, sysvars>>

(* RouterRequest.query has min_length 1 *)
RouteCall(force_mode, force_top_k, db) ==
    /\ arg.op = "route" /\ res = NoCall
    /\ arg.query # <<>>
    /\ res' = [op |-> "route", force_mode |-> force_mode,
               force_top_k |-> force_top_k, db |-> db]
              @@ route(arg.query, arg.lang_code, arg.chat_config,
                       force_mode, force_top_k, db)
    /\ UNCHANGED <<arg, sysvars>>

RouterNext ==
    \/ AnalyzeCall
    \/ DecideCall
    \/ \E force_mode \in ForceModes, force_top_k \in ForceTopKs, db \in DbAnswers :
          RouteCall(force_mode, force_top_k, db)

SpecRouter == RouterInit /\ [][RouterNext]_vars

(* C9  Query classification *)

ExpectedClass(refs, question, numbers, upper, word_count) ==
    IF refs THEN <<"exact_reference", 90>>
    ELSE IF question /\ word_count > 3 THEN <<"semantic_question", 85>>
    ELSE IF word_count <= 3 /\ (numbers \/ upper) THEN <<"keyword_search", 75>>
    ELSE IF word_count > 3 THEN <<"hybrid_query", 60>>
    ELSE <<"unclear", 30>>

\* C9: the analyzer's query type and confidence are the first matching rule
\* of: reference -> EXACT_REFERENCE 0.9; question words and more than 3 words
\* -> SEMANTIC_QUESTION 0.85; at most 3 words with a number or all upper case
\* -> KEYWORD_SEARCH 0.75; more than 3 words -> HYBRID_QUERY 0.6; otherwise
\* UNCLEAR 0.3.  A query with a reference is EXACT_REFERENCE even when it
\* has question words.
C9_Classification ==
    res.op = "analyze" =>
        LET c == res.characteristics
            e == ExpectedClass(has_references(arg.query), c.has_question_words,
                               c.has_numbers, isupper(arg.query), c.word_count)
        IN  /\ <<c.query_type, c.confidence>> = e
            /\ (has_references(arg.query) => c.query_type = "exact_reference")

\* "What is Article 27?" has question words and more than three words, and
\* is classified EXACT_REFERENCE with confidence 0.9
C9_Witness ==
    /\ res.op = "analyze"
    /\ arg.query = <<"What", "is", "Article", "27?">>
    /\ res.characteristics.has_question_words
    /\ res.characteristics.word_count > 3
    /\ res.characteristics.query_type = "exact_reference"
    /\ res.characteristics.confidence = 90

(* C10  Routing table *)

RoutingTable(query_type, strictness) ==
    CASE query_type = "exact_reference" -> <<"graph_enhanced", 10, 20, TRUE, 2>>
      [] query_type = "keyword_search" -> <<"sparse_only", 15, 0, FALSE, 0>>
      [] query_type = "semantic_question" ->
            IF strictness = "strict_docs_only"
            THEN <<"hybrid", 8, 40, TRUE, 1>>
            ELSE <<"hybrid", 12, 30, TRUE, 1>>
      [] query_type = "hybrid_query" -> <<"hybrid", 10, 35, FALSE, 0>>
      [] query_type = "unclear" -> <<"hybrid", 10, 30, FALSE, 0>>

\* C10: the decision's mode, top_k, threshold, expansion flag and hops are
\* exactly the table's row for (query_type, strictness); neighbor_hops is in
\* 0..2 and expand_with_neighbors holds iff neighbor_hops > 0.
C10_RoutingTable ==
    res.op = "decide" =>
        LET d == res.decision
            strictness == ConfigGet(arg.chat_config, "strictness",
                                    "strict_docs_only")
        IN  /\ d.query_characteristics.query_type \in
                  {"exact_reference", "keyword_search", "semantic_question",
                   "hybrid_query", "unclear"}
            /\ <<d.selected_mode, d.top_k, d.score_threshold,
                 d.expand_with_neighbors, d.neighbor_hops>>
               = RoutingTable(d.query_characteristics.query_type, strictness)
            /\ d.neighbor_hops \in 0..2
            /\ d.expand_with_neighbors <=> d.neighbor_hops > 0

\* a semantic question under a non-strict chat gets the relaxed parameters
C10_Witness ==
    /\ res.op = "decide"
    /\ res.decision.query_characteristics.query_type = "semantic_question"
    /\ res.decision.chat_strictness = "allow_reasoning"
    /\ res.decision.top_k = 12
    /\ res.decision.score_threshold = 30
    /\ res.decision.neighbor_hops = 1

----------------------------------------------------------------------------
(* The persisted stores and the services over them.                        *)
(*   atomic_units     the atomic_units table (a set of rows)               *)
(*   bm25_indexes     the bm25_indexes table: chat_id -> row (the table    *)
(*                    has a unique index on chat_id)                       *)
(*   document_graphs  the document_graphs table: chat_id -> row            *)
(*   qdrant           collection chat_id -> points                         *)
(*   ret              outcome of the last service call                     *)
(* Scores are integers on the scale: s stands for s / Scale.               *)

Tenants == {"tA", "tB"}

Chats == {"c1", "c2"}

Documents == {"dA", "dB"}

(* the documents rows: dA and dB are the documents uploaded in Spec, one  *)
(* per tenant and both filed under chat c1; dC is a second document of     *)
(* tenant tA in chat c1; chat c2 has no document                           *)
Document(d) ==
    CASE d = "dA" -> [id |-> "dA", tenant_id |-> "tA", chat_id |-> "c1"]
      [] d = "dB" -> [id |-> "dB", tenant_id |-> "tB", chat_id |-> "c1"]
      [] d = "dC" -> [id |-> "dC", tenant_id |-> "tA", chat_id |-> "c1"]

ParsedUnit(unit_type, level, text) ==
    [unit_type |-> unit_type, level |-> level, text |-> text]

(* what the parser yields for the stored file of document d *)
ParsedUnits(d) ==
    <<ParsedUnit("heading", 1, <<"Article", "27", "states", "X">>),
      ParsedUnit("paragraph", 2, <<"Payment", "terms">>),
      ParsedUnit("paragraph", 2, <<"See", "Article", "27">>)>>

(* id = uuid4(): fresh ids, here 1..3, 4..6 and 7..9 *)
NewUnitId(d, i) == IF d = "dA" THEN i ELSE IF d = "dB" THEN 3 + i ELSE 6 + i

save_atomic_units(parsed_units, document, tenant_id) ==
    {[id          |-> NewUnitId(document.id, i),
      tenant_id   |-> tenant_id,
      document_id |-> document.id,
      chat_id     |-> document.chat_id,
      unit_type   |-> parsed_units[i].unit_type,
      text        |-> parsed_units[i].text,
      sequence    |-> i,
      level       |-> parsed_units[i].level] : i \in DOMAIN parsed_units}

(* .order_by(AtomicUnit.sequence) *)
RECURSIVE OrderBySequence(_)
OrderBySequence(S) ==
    IF S = {} THEN <<>>
    ELSE LET u == CHOOSE x \in S : \A y \in S :
                     \/ x.sequence < y.sequence
                     \/ (x.sequence = y.sequence /\ x.id <= y.id)
         IN  <<u>> \o OrderBySequence(S \ {u})

(* BM25Service._load_atomic_units and GraphService._load_atomic_units *)
load_atomic_units(chat_id, tenant_id) ==
    OrderBySequence({u \in atomic_units :
                        u.chat_id = chat_id /\ u.tenant_id = tenant_id})

(* IndexingService._load_atomic_units *)
load_document_units(document_id, tenant_id) ==
    OrderBySequence({u \in atomic_units :
                        u.document_id = document_id /\ u.tenant_id = tenant_id})

----------------------------------------------------------------------------
(* BM25Service: build_index, _save_index, _load_index, delete_index *)

index_content(units) ==
    LET corpus_tokens == [i \in DOMAIN units |-> tokenize(units[i].text)]
    IN  [corpus_tokens  |-> corpus_tokens,
         doc_ids        |-> [i \in DOMAIN units |-> units[i].id],
         doc_metadata   |-> [i \in DOMAIN units |->
                               [document_id |-> units[i].document_id,
                                unit_type   |-> units[i].unit_type,
                                sequence    |-> units[i].sequence]],
         document_count |-> Len(units),
         total_tokens   |-> TotalTokens(corpus_tokens)]

(* a save that rewrites only the corpus and the ids of an existing row *)
save_index_partial(chat_id, tenant_id, content) ==
    IF chat_id \in DOMAIN bm25_indexes
    THEN [bm25_indexes EXCEPT ![chat_id].corpus_tokens = content.corpus_tokens,
                              ![chat_id].doc_ids = content.doc_ids]
    ELSE (chat_id :> ([tenant_id |-> tenant_id] @@ content)) @@ bm25_indexes

(* the existing row is looked up by chat_id alone; it keeps its tenant_id *)
save_index(chat_id, tenant_id, content) ==
    IF chat_id \in DOMAIN bm25_indexes
    THEN [bm25_indexes EXCEPT ![chat_id] =
             [tenant_id |-> bm25_indexes[chat_id].tenant_id] @@ content]
    ELSE (chat_id :> ([tenant_id |-> tenant_id] @@ content)) @@ bm25_indexes

load_index(chat_id, tenant_id) ==
    IF chat_id \in DOMAIN bm25_indexes
       /\ bm25_indexes[chat_id].tenant_id = tenant_id
    THEN bm25_indexes[chat_id]
    ELSE NoRow

(* a build that drops the stored row before it fails on an empty corpus *)
build_index_clears(chat_id, tenant_id) ==
    LET units == load_atomic_units(chat_id, tenant_id)
    IN  IF units = <<>>
        THEN [kind |-> "BM25BuildError",
              bm25_indexes |-> [c \in DOMAIN bm25_indexes \ {chat_id} |->
                                   bm25_indexes[c]]]
        ELSE [kind |-> "ok",
              bm25_indexes |-> save_index(chat_id, tenant_id, index_content(units))]

build_index(chat_id, tenant_id) ==
    LET units == load_atomic_units(chat_id, tenant_id)
    IN  IF units = <<>>
        THEN [kind |-> "BM25BuildError", bm25_indexes |-> bm25_indexes]
        ELSE [kind |-> "ok",
              bm25_indexes |-> save_index(chat_id, tenant_id, index_content(units))]

delete_index(chat_id, tenant_id) ==
    IF load_index(chat_id, tenant_id) # NoRow
    THEN [deleted |-> TRUE,
          bm25_indexes |-> [c \in DOMAIN bm25_indexes \ {chat_id} |-> bm25_indexes[c]]]
    ELSE [deleted |-> FALSE, bm25_indexes |-> bm25_indexes]

----------------------------------------------------------------------------
(* GraphService: build_graph, _save_graph, _load_graph *)

graph_content(graph) ==
    [nodes |-> graph.nodes, edges |-> graph.edges,
     node_count |-> Cardinality(DOMAIN graph.nodes),
     edge_count |-> Len(graph.edges)]

save_graph(chat_id, tenant_id, graph) ==
    LET content == graph_content(graph)
    IN  IF chat_id \in DOMAIN document_graphs
        THEN [document_graphs EXCEPT ![chat_id] =
                 [tenant_id |-> document_graphs[chat_id].tenant_id] @@ content]
        ELSE (chat_id :> ([tenant_id |-> tenant_id] @@ content)) @@ document_graphs

load_graph(chat_id, tenant_id) ==
    IF chat_id \in DOMAIN document_graphs
       /\ document_graphs[chat_id].tenant_id = tenant_id
    THEN document_graphs[chat_id]
    ELSE NoRow

service_build_graph(chat_id, tenant_id) ==
    LET units == load_atomic_units(chat_id, tenant_id)
    IN  IF units = <<>>
        THEN [kind |-> "GraphBuildError", document_graphs |-> document_graphs]
        ELSE [kind |-> "ok",
              document_graphs |-> save_graph(chat_id, tenant_id, build_graph(units))]

----------------------------------------------------------------------------
(* QdrantVectorStore and IndexingService *)

create_collection(chat_id) ==
    IF chat_id \in DOMAIN qdrant THEN qdrant ELSE (chat_id :> {}) @@ qdrant

prepare_points(units, tenant_id) ==
    {[id |-> units[i].id,
      payload |-> [tenant_id   |-> tenant_id,
                   document_id |-> units[i].document_id,
                   chat_id     |-> units[i].chat_id,
                   unit_type   |-> units[i].unit_type,
                   sequence    |-> units[i].sequence,
                   level       |-> units[i].level]] : i \in DOMAIN units}

(* upsert: a point with the id of a new point is replaced *)
index_points(store, chat_id, points) ==
    [store EXCEPT ![chat_id] =
        {p \in @ : \A q \in points : q.id # p.id} \cup points]

----------------------------------------------------------------------------
(* Retrievers (services/retrieval).  A call yields [results, errors]:     *)
(* the result list and the set of failures it logged and swallowed.       *)
(* sim[id] is the similarity the vector store finds for point id; faults  *)
(* is the set of external calls that fail during the request.             *)

RECURSIVE OrderById(_)
OrderById(S) ==
    IF S = {} THEN <<>>
    ELSE LET p == CHOOSE x \in S : \A y \in S : x.id <= y.id
         IN  <<p>> \o OrderById(S \ {p})

ScoredPoints(points, sim) ==
    [i \in DOMAIN points |->
        [id |-> points[i].id, score |-> sim[points[i].id],
         payload |-> points[i].payload]]

(* QdrantVectorStore.search: tenant filter, score_threshold, limit *)
vector_search(chat_id, tenant_id, limit, score_threshold, sim) ==
    Prefix(SortByScoreDesc(ScoredPoints(
               OrderById({p \in qdrant[chat_id] :
                             /\ p.payload.tenant_id = tenant_id
                             /\ sim[p.id] >= score_threshold}), sim)),
           limit)

FormatDense(found) ==
    [i \in DOMAIN found |->
        [atomic_unit_id |-> found[i].id,
         score          |-> found[i].score,
         source         |-> "dense",
         metadata       |-> found[i].payload]]

dense_retrieve(chat_id, tenant_id, top_k, score_threshold, sim, faults) ==
    IF "vector_store" \in faults \/ chat_id \notin DOMAIN qdrant
    THEN [results |-> <<>>, errors |-> {"Dense retrieval failed"}]
    ELSE [results |-> FormatDense(vector_search(chat_id, tenant_id, top_k,
                                                score_threshold, sim)),
          errors  |-> {}]

FormatSparse(found) ==
    IF found.kind # "ok"
    THEN [results |-> <<>>, errors |-> {"Sparse retrieval failed"}]
    ELSE [results |-> [i \in DOMAIN found.results |->
                         [atomic_unit_id |-> found.results[i].atomic_unit_id,
                          score          |-> found.results[i].score,
                          source         |-> "sparse",
                          metadata       |-> found.results[i].metadata]],
          errors |-> {}]

(* BM25Service.search on the loaded row; no row: BM25IndexNotFoundError *)
SearchLoaded(index_data, query, top_k) ==
    IF index_data = NoRow
    THEN [kind |-> "BM25IndexNotFoundError", results |-> <<>>]
    ELSE bm25_search(index_data, tokenize(query), top_k)

(* SparseRetriever.retrieve logs any failure of the search and returns [] *)
sparse_retrieve(chat_id, tenant_id, query, top_k) ==
    FormatSparse(SearchLoaded(load_index(chat_id, tenant_id), query, top_k))

FuseHybrid(dense, sparse, top_k) ==
    [results |-> Prefix(fuse(<<dense.results, sparse.results>>, <<3, 2>>), top_k),
     errors  |-> dense.errors \cup sparse.errors]

(* HybridRetriever._hybrid: weights [0.6, 0.4] *)
hybrid(chat_id, tenant_id, query, top_k, score_threshold, sim, faults) ==
    FuseHybrid(dense_retrieve(chat_id, tenant_id, top_k * 2, score_threshold,
                              sim, faults),
               sparse_retrieve(chat_id, tenant_id, query, top_k * 2),
               top_k)

(* result["score"] * 0.8 ** distance *)
RECURSIVE DecayedScore(_, _)
DecayedScore(score, distance) ==
    IF distance = 0 THEN score
    ELSE DecayedScore((score \div 5) * 4, distance - 1)

NeighborResult(neighbor, result) ==
    [atomic_unit_id |-> neighbor.node.node_id,
     score          |-> DecayedScore(result.score, neighbor.distance),
     source         |-> "graph",
     metadata       |-> neighbor.node,
     graph_distance |-> neighbor.distance]

(* a loop that appends every neighbor, whether or not its id was seen *)
RECURSIVE NeighborLoopUnseen(_, _, _, _)
NeighborLoopUnseen(neighbors, k, result, st) ==
    IF k > Len(neighbors) THEN st
    ELSE NeighborLoopUnseen(neighbors, k + 1, result,
            [st EXCEPT !.expanded = Append(@, NeighborResult(neighbors[k], result)),
                       !.seen_ids = @ \cup {neighbors[k].node.node_id}])

(* for neighbor in neighbors; st = [expanded, seen_ids, errors] *)
RECURSIVE NeighborLoop(_, _, _, _)
NeighborLoop(neighbors, k, result, st) ==
    IF k > Len(neighbors) THEN st
    ELSE IF neighbors[k].node.node_id \in st.seen_ids
    THEN NeighborLoop(neighbors, k + 1, result, st)
    ELSE NeighborLoop(neighbors, k + 1, result,
            [st EXCEPT !.expanded = Append(@, NeighborResult(neighbors[k], result)),
                       !.seen_ids = @ \cup {neighbors[k].node.node_id}])

AddOriginal(result, st) ==
    IF result.atomic_unit_id \in st.seen_ids THEN st
    ELSE [st EXCEPT !.expanded = Append(@, result),
                    !.seen_ids = @ \cup {result.atomic_unit_id}]

(* get_neighbors raises GraphNotFoundError when the collection has no     *)
(* graph for the tenant, and whatever its query raises: logged, continue   *)
AddNeighbors(graph, raised, result, hops, st) ==
    IF raised \/ graph = NoRow
    THEN [st EXCEPT !.errors = @ \cup {"Failed to get neighbors"}]
    ELSE NeighborLoop(neighbors_of(graph, result.atomic_unit_id, "None", hops),
                      1, result, st)

(* a loop inside one try block: the first failing lookup ends it *)
RECURSIVE ExpandLoopAborting(_, _, _, _, _, _, _)
ExpandLoopAborting(chat_id, tenant_id, results, i, hops, failing, st) ==
    IF i > Len(results) THEN st
    ELSE IF results[i].atomic_unit_id \in failing
            \/ load_graph(chat_id, tenant_id) = NoRow
    THEN [st EXCEPT !.errors = @ \cup {"Failed to get neighbors"}]
    ELSE ExpandLoopAborting(chat_id, tenant_id, results, i + 1, hops, failing,
                    AddNeighbors(load_graph(chat_id, tenant_id), FALSE,
                                 results[i], hops, AddOriginal(results[i], st)))

(* for result in results; failing holds the unit ids whose neighbor query *)
(* raises during the request                                               *)
RECURSIVE ExpandLoop(_, _, _, _, _, _, _)
ExpandLoop(chat_id, tenant_id, results, i, hops, failing, st) ==
    IF i > Len(results) THEN st
    ELSE ExpandLoop(chat_id, tenant_id, results, i + 1, hops, failing,
                    AddNeighbors(load_graph(chat_id, tenant_id),
                                 results[i].atomic_unit_id \in failing,
                                 results[i], hops, AddOriginal(results[i], st)))

Resorted(st) == [results |-> SortByScoreDesc(st.expanded), errors |-> st.errors]

(* HybridRetriever._expand_with_neighbors *)
expand_results(chat_id, tenant_id, results, hops, failing) ==
    Resorted(ExpandLoop(chat_id, tenant_id, results, 1, hops, failing,
                        [expanded |-> <<>>, seen_ids |-> {}, errors |-> {}]))

(* in the system every neighbor query that finds the graph succeeds *)
expand_with_neighbors(chat_id, tenant_id, results, hops) ==
    expand_results(chat_id, tenant_id, results, hops, {})

WithErrors(errors, found) ==
    [results |-> found.results, errors |-> errors \cup found.errors]

ExpandFound(chat_id, tenant_id, found, hops) ==
    WithErrors(found.errors,
               expand_with_neighbors(chat_id, tenant_id, found.results, hops))

(* HybridRetriever._graph_enhanced *)
graph_enhanced(chat_id, tenant_id, request, sim, faults) ==
    ExpandFound(chat_id, tenant_id,
                hybrid(chat_id, tenant_id, request.query, request.top_k,
                       request.score_threshold, sim, faults),
                request.neighbor_hops)

RetrievedContext(result, unit) ==
    [atomic_unit_id |-> result.atomic_unit_id,
     text           |-> unit.text,
     score          |-> result.score,
     source         |-> ConfigGet(result, "source", "unknown"),
     document_id    |-> unit.document_id,
     unit_type      |-> unit.unit_type,
     sequence       |-> unit.sequence,
     graph_distance |-> ConfigGet(result, "graph_distance", "None")]

ContextsOf(found) ==
    [i \in DOMAIN found |->
        RetrievedContext(found[i],
            CHOOSE u \in atomic_units : u.id = found[i].atomic_unit_id)]

(* select(AtomicUnit).where(AtomicUnit.id.in_(unit_ids)); a result whose  *)
(* unit is not in the table is dropped; a failing query yields []         *)
enrich_results(results, faults) ==
    IF results = <<>> THEN [contexts |-> <<>>, errors |-> {}]
    ELSE IF "database" \in faults
    THEN [contexts |-> <<>>, errors |-> {"Failed to enrich results"}]
    ELSE [contexts |-> ContextsOf(SelectSeq(results,
                          LAMBDA r : \E u \in atomic_units : u.id = r.atomic_unit_id)),
          errors |-> {}]

RetrievalModes == {"dense_only", "sparse_only", "hybrid", "graph_enhanced"}

(* 1. retrieve based on mode *)
mode_results(chat_id, tenant_id, request, sim, faults) ==
    CASE request.mode = "dense_only" ->
            dense_retrieve(chat_id, tenant_id, request.top_k,
                           request.score_threshold, sim, faults)
      [] request.mode = "sparse_only" ->
            sparse_retrieve(chat_id, tenant_id, request.query, request.top_k)
      [] request.mode = "hybrid" ->
            hybrid(chat_id, tenant_id, request.query, request.top_k,
                   request.score_threshold, sim, faults)
      [] request.mode = "graph_enhanced" ->
            graph_enhanced(chat_id, tenant_id, request, sim, faults)

(* 2. expand with graph neighbors if requested *)
expand_if_requested(chat_id, tenant_id, request, found) ==
    IF request.expand_with_neighbors /\ request.mode # "graph_enhanced"
    THEN ExpandFound(chat_id, tenant_id, found, request.neighbor_hops)
    ELSE found

(* 4. apply score threshold and limit *)
threshold_and_limit(request, errors, enriched) ==
    [kind |-> "ok",
     contexts |-> Prefix(SelectSeq(enriched.contexts,
                            LAMBDA c : c.score >= request.score_threshold),
                         request.top_k),
     rolled_back |-> FALSE,
     errors |-> errors \cup enriched.errors]

(* 3. load full atomic unit data *)
enrich_and_filter(request, faults, found) ==
    threshold_and_limit(request, found.errors,
                        enrich_results(found.results, faults))

(* the try block of HybridRetriever.retrieve: an unknown mode raises       *)
(* InvalidRetrievalModeError inside it                                     *)
try_retrieve(chat_id, tenant_id, request, sim, faults) ==
    IF request.mode \notin RetrievalModes
    THEN [kind |-> "InvalidRetrievalModeError", contexts |-> <<>>,
          rolled_back |-> FALSE, errors |-> {}]
    ELSE enrich_and_filter(request, faults,
            expand_if_requested(chat_id, tenant_id, request,
                mode_results(chat_id, tenant_id, request, sim, faults)))

(* a handler that lets the exception of the try block through *)
reraise(outcome) == outcome

(* except Exception: log, await self.db.rollback(), raise RetrievalError *)
except_exception(outcome) ==
    IF outcome.kind = "ok" THEN outcome
    ELSE [kind |-> "RetrievalError", contexts |-> <<>>, rolled_back |-> TRUE,
          errors |-> outcome.errors \cup {"Retrieval failed"}]

(* HybridRetriever.retrieve *)
retrieve(chat_id, tenant_id, request, sim, faults) ==
    except_exception(try_retrieve(chat_id, tenant_id, request, sim, faults))

----------------------------------------------------------------------------
(* The system: documents are processed, indexed and queried in any order  *)
(* by either tenant, one call at a time; ret holds the outcome of a call  *)
(* until the caller has taken it.                                          *)

RequestQueries == {<<"Article", "27">>, <<"Payment">>}

RequestTopKs == {1, 3}

(* 0.01 and 0.3 *)
RequestThresholds == {Scale \div 100, 3 * (Scale \div 10)}

(* no expansion, or expansion by one hop *)
RequestExpansions == {<<FALSE, 0>>, <<TRUE, 1>>}

RetrievalRequest(query, mode, top_k, score_threshold, expansion) ==
    [query |-> query, mode |-> mode, top_k |-> top_k,
     score_threshold |-> score_threshold,
     expand_with_neighbors |-> expansion[1], neighbor_hops |-> expansion[2]]

(* the requests of the four modes, and one whose mode is none of them *)
Requests ==
    {RetrievalRequest(q, m, k, s, e) :
        q \in RequestQueries, m \in RetrievalModes, k \in RequestTopKs,
        s \in RequestThresholds, e \in RequestExpansions}
    \cup {RetrievalRequest(<<"Payment">>, "invalid", 3, 0, <<FALSE, 0>>)}

(* what the external services do during a request: the similarities the  *)
(* vector store finds (descending or ascending in the unit id) and the    *)
(* calls that fail                                                         *)
Externals ==
    {[sim |-> [id \in 1..9 |-> (10 - id) * (Scale \div 10)], faults |-> {}],
     [sim |-> [id \in 1..9 |-> id * (Scale \div 10)], faults |-> {"vector_store"}],
     [sim |-> [id \in 1..9 |-> id * (Scale \div 10)], faults |-> {"database"}]}

Init ==
    /\ arg = [op |-> "system"]
    /\ res = NoCall
    /\ documents = Documents
    /\ atomic_units = {}
    /\ bm25_indexes = <<>>
    /\ document_graphs = <<>>
    /\ qdrant = <<>>
    /\ ret = NoCall
    /\ redis = <<>>
    /\ sessions = <<>>

(* DocumentProcessor.process_document *)
ProcessDocument(d, tenant_id) ==
    /\ arg.op = "system" /\ ret = NoCall
    /\ UNCHANGED <<redis, sessions>>
    /\ \A u \in atomic_units : u.document_id # d
    /\ IF d \in documents /\ Document(d).tenant_id = tenant_id
       THEN /\ atomic_units' = atomic_units
                  \cup save_atomic_units(ParsedUnits(d), Document(d), tenant_id)
            /\ ret' = [op |-> "process_document", kind |-> "ok",
                       document_id |-> d, tenant_id |-> tenant_id]
       ELSE /\ atomic_units' = atomic_units
            /\ ret' = [op |-> "process_document",
                       kind |-> "DocumentProcessingError",
                       document_id |-> d, tenant_id |-> tenant_id]
    /\ UNCHANGED <<arg, res, documents, bm25_indexes, document_graphs, qdrant>>

(* DocumentService.delete_document: the document row is deleted, and with *)
(* it its atomic_units rows (atomic_units.document_id is ON DELETE        *)
(* CASCADE); the index, the graph and the vector store are not touched    *)
DeleteDocument(d, tenant_id) ==
    /\ arg.op = "system" /\ ret = NoCall
    /\ UNCHANGED <<redis, sessions>>
    /\ IF d \in documents /\ Document(d).tenant_id = tenant_id
       THEN /\ documents' = documents \ {d}
            /\ atomic_units' = {u \in atomic_units : u.document_id # d}
            /\ ret' = [op |-> "delete_document", kind |-> "ok", deleted |-> TRUE,
                       document_id |-> d, tenant_id |-> tenant_id]
       ELSE /\ UNCHANGED <<documents, atomic_units>>
            /\ ret' = [op |-> "delete_document", kind |-> "ok", deleted |-> FALSE,
                       document_id |-> d, tenant_id |-> tenant_id]
    /\ UNCHANGED <<arg, res, bm25_indexes, document_graphs, qdrant>>

(* BM25Service.build_index *)
BuildIndex(chat_id, tenant_id) ==
    /\ arg.op = "system" /\ ret = NoCall
    /\ UNCHANGED <<redis, sessions>>
    /\ LET built == build_index(chat_id, tenant_id)
       IN  /\ bm25_indexes' = built.bm25_indexes
           /\ ret' = [op |-> "build_index", kind |-> built.kind,
                      chat_id |-> chat_id, tenant_id |-> tenant_id]
    /\ UNCHANGED <<arg, res, documents, atomic_units, document_graphs, qdrant>>

(* BM25Service.delete_index *)
DeleteIndex(chat_id, tenant_id) ==
    /\ arg.op = "system" /\ ret = NoCall
    /\ UNCHANGED <<redis, sessions>>
    /\ LET deleted == delete_index(chat_id, tenant_id)
       IN  /\ bm25_indexes' = deleted.bm25_indexes
           /\ ret' = [op |-> "delete_index", kind |-> "ok",
                      deleted |-> deleted.deleted,
                      chat_id |-> chat_id, tenant_id |-> tenant_id]
    /\ UNCHANGED <<arg, res, documents, atomic_units, document_graphs, qdrant>>

(* BM25Service.search *)
Search(chat_id, tenant_id, query, top_k) ==
    /\ arg.op = "system" /\ ret = NoCall
    /\ UNCHANGED <<redis, sessions>>
    /\ ret' = [op |-> "search", chat_id |-> chat_id, tenant_id |-> tenant_id,
               query |-> query, top_k |-> top_k]
              @@ SearchLoaded(load_index(chat_id, tenant_id), query, top_k)
    /\ UNCHANGED <<arg, res, documents, atomic_units, bm25_indexes,
                   document_graphs, qdrant>>

(* GraphService.build_graph *)
BuildGraph(chat_id, tenant_id) ==
    /\ arg.op = "system" /\ ret = NoCall
    /\ UNCHANGED <<redis, sessions>>
    /\ LET built == service_build_graph(chat_id, tenant_id)
       IN  /\ document_graphs' = built.document_graphs
           /\ ret' = [op |-> "build_graph", kind |-> built.kind,
                      chat_id |-> chat_id, tenant_id |-> tenant_id]
    /\ UNCHANGED <<arg, res, documents, atomic_units, bm25_indexes, qdrant>>

(* IndexingService.index_document, called with the document's chat: the  *)
(* collection is created first; the BM25 and graph builds that follow the *)
(* upsert are non-fatal                                                    *)
IndexDocument(d, tenant_id) ==
    /\ arg.op = "system" /\ ret = NoCall
    /\ UNCHANGED <<redis, sessions>>
    /\ LET chat_id == Document(d).chat_id
           units   == load_document_units(d, tenant_id)
       IN  IF units = <<>>
           THEN /\ qdrant' = create_collection(chat_id)
                /\ UNCHANGED <<bm25_indexes, document_graphs>>
                /\ ret' = [op |-> "index_document", kind |-> "IndexingError",
                           document_id |-> d, tenant_id |-> tenant_id]
           ELSE /\ qdrant' = index_points(create_collection(chat_id), chat_id,
                                          prepare_points(units, tenant_id))
                /\ bm25_indexes' = build_index(chat_id, tenant_id).bm25_indexes
                /\ document_graphs' =
                      service_build_graph(chat_id, tenant_id).document_graphs
                /\ ret' = [op |-> "index_document", kind |-> "ok",
                           document_id |-> d, tenant_id |-> tenant_id]
    /\ UNCHANGED <<arg, res, documents, atomic_units>>

(* HybridRetriever.retrieve *)
Retrieve(chat_id, tenant_id, request, sim, faults) ==
    /\ arg.op = "system" /\ ret = NoCall
    /\ UNCHANGED <<redis, sessions>>
    /\ ret' = [op |-> "retrieve", chat_id |-> chat_id, tenant_id |-> tenant_id,
               request |-> request, sim |-> sim, faults |-> faults]
              @@ retrieve(chat_id, tenant_id, request, sim, faults)
    /\ UNCHANGED <<arg, res, documents, atomic_units, bm25_indexes, document_graphs, qdrant>>

(* the caller takes the outcome; the next call can be served *)
Return ==
    /\ arg.op = "system" /\ ret # NoCall
    /\ UNCHANGED <<redis, sessions>>
    /\ ret' = NoCall
    /\ UNCHANGED <<arg, res, documents, atomic_units, bm25_indexes, document_graphs, qdrant>>

(* the calls that write or read the stores without the retrieval engine *)
StoreNext ==
    \/ \E d \in Documents, t \in Tenants : ProcessDocument(d, t)
    \/ \E d \in Documents, t \in Tenants : DeleteDocument(d, t)
    \/ \E c \in Chats, t \in Tenants : BuildIndex(c, t)
    \/ \E c \in Chats, t \in Tenants : DeleteIndex(c, t)
    \/ \E c \in Chats, t \in Tenants, q \in RequestQueries, k \in RequestTopKs :
          Search(c, t, q, k)
    \/ \E c \in Chats, t \in Tenants : BuildGraph(c, t)
    \/ \E d \in Documents, t \in Tenants : IndexDocument(d, t)
    \/ Return

(* the stores under the document, index and graph services alone *)
SpecStores == Init /\ [][StoreNext]_vars

Next ==
    \/ StoreNext
    \/ \E c \in Chats, t \in Tenants, request \in Requests, ext \in Externals :
          Retrieve(c, t, request, ext.sim, ext.faults)

Spec == Init /\ [][Next]_vars

----------------------------------------------------------------------------
(* C1  Tenant isolation of retrieve *)

\* C1: retrieve for a tenant never returns a context whose unit or document
\* belongs to the other tenant, in any mode, for any chat_id and after any
\* sequence of index and graph builds by both tenants.
C1_TenantIsolation ==
    ret.op = "retrieve" =>
        \A i \in DOMAIN ret.contexts :
            /\ Document(ret.contexts[i].document_id).tenant_id = ret.tenant_id
            /\ \A u \in atomic_units :
                  u.id = ret.contexts[i].atomic_unit_id
                      => u.tenant_id = ret.tenant_id

(* C2  Unrecoverable failures of retrieve *)

\* C2: when the collection has no sparse index for the search, the dense
\* lookup fails, or loading the units fails, retrieve ends in RetrievalError
\* and returns no list.
C2_FailureIsRetrievalError ==
    (/\ ret.op = "retrieve"
     /\ ret.errors \cap {"Sparse retrieval failed", "Dense retrieval failed",
                         "Failed to enrich results"} # {})
        => ret.kind = "RetrievalError"

----------------------------------------------------------------------------
(* C11  Sparse index lookup errors *)

(* the call that has just been served is op on collection (chat, tenant) *)
Served(op, chat_id, tenant_id) ==
    /\ ret = NoCall
    /\ ret'.op = op
    /\ ret'.chat_id = chat_id
    /\ ret'.tenant_id = tenant_id

\* C11: search on a collection fails with IndexNotFoundError exactly when
\* no index exists for it, where an index exists from a successful build of
\* the collection until its next delete: a successful build leaves an index
\* for the collection, only a delete of the collection removes it, delete
\* returns true iff an index existed, and no index exists after a delete.
C11_IndexLookup ==
    [][\A c \in Chats, t \in Tenants :
          /\ Served("search", c, t) =>
                (ret'.kind = "BM25IndexNotFoundError" <=> load_index(c, t) = NoRow)
          /\ Served("delete_index", c, t) =>
                /\ ret'.deleted <=> load_index(c, t) # NoRow
                /\ load_index(c, t)' = NoRow
          /\ (Served("build_index", c, t) /\ ret'.kind = "ok") =>
                load_index(c, t)' # NoRow
          /\ (load_index(c, t) # NoRow /\ ~Served("delete_index", c, t)) =>
                load_index(c, t)' # NoRow]_vars

----------------------------------------------------------------------------
(* C12  A build with no units *)

\* C12: a build on a collection that has no units fails with BuildError and
\* leaves the stored indexes as they were: an index stored before the failed
\* build is still there with the same contents, and none is created.
C12_EmptyBuildFails ==
    [][\A c \in Chats, t \in Tenants :
          (Served("build_index", c, t) /\ load_atomic_units(c, t) = <<>>) =>
              /\ ret'.kind = "BM25BuildError"
              /\ bm25_indexes' = bm25_indexes]_vars

(* a build has failed on a collection whose units are gone while its index *)
(* is stored *)
C12_Witness ==
    /\ ret.op = "build_index"
    /\ ret.kind = "BM25BuildError"
    /\ load_atomic_units(ret.chat_id, ret.tenant_id) = <<>>
    /\ load_index(ret.chat_id, ret.tenant_id) # NoRow
    /\ load_index(ret.chat_id, ret.tenant_id).document_count = 3

----------------------------------------------------------------------------
(* C13  The invariant of a stored sparse index *)

(* every unit row that a processed document can have *)
ProcessedUnits ==
    UNION {save_atomic_units(ParsedUnits(d), Document(d), Document(d).tenant_id) :
              d \in Documents}

(* entry i of the three arrays of the row comes from the unit doc_ids[i] *)
EntryFromOneUnit(row, i) ==
    \E u \in ProcessedUnits :
        /\ row.doc_ids[i] = u.id
        /\ row.corpus_tokens[i] = tokenize(u.text)
        /\ row.doc_metadata[i] = [document_id |-> u.document_id,
                                  unit_type   |-> u.unit_type,
                                  sequence    |-> u.sequence]

SparseIndexInvariant(row) ==
    /\ Len(row.corpus_tokens) = row.document_count
    /\ Len(row.doc_ids) = row.document_count
    /\ Len(row.doc_metadata) = row.document_count
    /\ \A i \in 1..row.document_count : EntryFromOneUnit(row, i)
    /\ row.total_tokens =
          SeqSum([i \in 1..row.document_count |-> Len(row.corpus_tokens[i])])

(* the five fields of the row are those computed from one list of units *)
FromOneSnapshot(row, units) ==
    [f \in DOMAIN row \ {"tenant_id"} |-> row[f]] = index_content(units)

\* C13: after any sequence of builds and deletes every stored index has
\* corpus_tokens, doc_ids and doc_metadata of length document_count, entry i
\* of the three arrays derived from the same unit, and total_tokens equal to
\* the sum of the lengths of the token lists; a build that succeeds replaces
\* the five fields together, from the units it loaded.
C13_SparseIndexInvariant ==
    [][/\ \A c \in DOMAIN bm25_indexes' : SparseIndexInvariant(bm25_indexes'[c])
       /\ \A c \in Chats, t \in Tenants :
             (Served("build_index", c, t) /\ ret'.kind = "ok") =>
                 FromOneSnapshot(bm25_indexes'[c], load_atomic_units(c, t))]_vars

(* a build of one tenant has replaced the index built from the units of the *)
(* other *)
C13_Witness ==
    /\ ret.op = "build_index"
    /\ ret.kind = "ok"
    /\ ret.tenant_id = "tB"
    /\ bm25_indexes[ret.chat_id].tenant_id = "tA"
    /\ bm25_indexes[ret.chat_id].doc_ids = <<4, 5, 6>>

----------------------------------------------------------------------------
(* A chat with two indexed documents of one tenant.  Tenant tA has        *)
(* processed dA and dC in chat c1 and index_document has run for both, so  *)
(* the vector collection, the BM25 index and the graph of c1 cover the     *)
(* units of both; from there documents are deleted, the graph is rebuilt  *)
(* and the chat is queried.                                                *)

ChatDocuments == {"dA", "dC"}

ChatUnits ==
    OrderBySequence(UNION {save_atomic_units(ParsedUnits(d), Document(d), "tA") :
                              d \in ChatDocuments})

IndexedInit ==
    /\ arg = [op |-> "system"]
    /\ res = NoCall
    /\ documents = ChatDocuments
    /\ atomic_units = Range(ChatUnits)
    /\ bm25_indexes = ("c1" :> ([tenant_id |-> "tA"] @@ index_content(ChatUnits)))
    /\ document_graphs =
          ("c1" :> ([tenant_id |-> "tA"] @@ graph_content(build_graph(ChatUnits))))
    /\ qdrant = ("c1" :> prepare_points(ChatUnits, "tA"))
    /\ ret = NoCall
    /\ redis = <<>>
    /\ sessions = <<>>

IndexedNext ==
    \/ \E d \in ChatDocuments, t \in Tenants : DeleteDocument(d, t)
    \/ \E c \in Chats, t \in Tenants : BuildGraph(c, t)
    \/ \E c \in Chats, t \in Tenants, request \in Requests, ext \in Externals :
          Retrieve(c, t, request, ext.sim, ext.faults)
    \/ Return

SpecIndexed == IndexedInit /\ [][IndexedNext]_vars

----------------------------------------------------------------------------
(* C14  Post-processing order of retrieve *)

(* the candidate list of the request: steps 1 and 2 of retrieve *)
Candidates(chat_id, tenant_id, request, sim, faults) ==
    expand_if_requested(chat_id, tenant_id, request,
        mode_results(chat_id, tenant_id, request, sim, faults)).results

(* filter by score_threshold, truncate to top_k, then load the units *)
FilterTruncateEnrich(candidates, request) ==
    enrich_results(
        Prefix(SelectSeq(candidates, LAMBDA r : r.score >= request.score_threshold),
               request.top_k),
        {}).contexts

\* C14: in every mode the list retrieve returns is the candidate list
\* filtered to score >= score_threshold, then truncated to top_k, and only
\* then stripped of the units that cannot be loaded: a missing unit among
\* the first top_k survivors is dropped and no lower-ranked candidate takes
\* its place.
C14_PostProcessingOrder ==
    (/\ ret.op = "retrieve"
     /\ ret.kind = "ok"
     /\ "database" \notin ret.faults)
        => ret.contexts =
              FilterTruncateEnrich(
                  Candidates(ret.chat_id, ret.tenant_id, ret.request, ret.sim,
                             ret.faults),
                  ret.request)

----------------------------------------------------------------------------
(* C15  Single error surface with rollback *)

----------------------------------------------------------------------------
(* C16  Manual overrides in route *)

(* the decision computed for the request before the overrides *)
Computed == decide(analyze(arg.query, arg.lang_code),
                   load_chat_config(arg.chat_config, res.db).chat_config)

\* C16: in the decision route returns, selected_mode is force_mode when
\* force_mode is supplied, top_k is force_top_k when force_top_k is supplied,
\* the reasoning is annotated as overridden whenever either override is
\* supplied (force_top_k alone included), and with neither supplied the
\* computed decision is returned unchanged.
C16_ManualOverrides ==
    (res.op = "route" /\ res.kind = "ok") =>
        /\ res.force_mode # "None" => res.decision.selected_mode = res.force_mode
        /\ res.force_top_k # 0 => res.decision.top_k = res.force_top_k
        /\ (res.force_mode # "None" \/ res.force_top_k # 0) =>
              res.decision.reasoning =
                  Computed.reasoning \o " (Manually overridden)"
        /\ (res.force_mode = "None" /\ res.force_top_k = 0) =>
              res.decision = Computed

----------------------------------------------------------------------------
(* C17  No automatic retry inside the core *)

\* C17: within one route request the chat query is issued at most once, and
\* when it fails the failure is handed to the caller: the core does not
\* issue a failed query again.
C17_NoRetry ==
    res.op = "route" =>
        /\ res.executes <= 1
        /\ res.db[1] \notin {"found", "not_found"} => res.kind = "RouterError"

----------------------------------------------------------------------------
(* C18  Collection keying *)

(* the call just served for a tenant has left the record of the chat alone *)
(* when the record is stored under another tenant *)
KeptForOtherTenant(table, c) ==
    (/\ c \in DOMAIN table
     /\ ret = NoCall /\ ret' # NoCall
     /\ ret'.tenant_id # table[c].tenant_id)
        => (c \in DOMAIN table' /\ table'[c] = table[c])

\* C18: every read and write of a sparse index or document graph record
\* selects it by the pair (tenant_id, chat_id): a call issued for one tenant
\* never overwrites or deletes a record stored under another tenant_id, and
\* a search that succeeds has read a record of the calling tenant.
C18_CollectionKeying ==
    [][/\ \A c \in Chats : KeptForOtherTenant(bm25_indexes, c)
       /\ \A c \in Chats : KeptForOtherTenant(document_graphs, c)
       /\ (ret = NoCall /\ ret'.op = "search" /\ ret'.kind = "ok") =>
              bm25_indexes[ret'.chat_id].tenant_id = ret'.tenant_id]_vars

----------------------------------------------------------------------------
(* C19  The stack algorithm computes the nearest shallower predecessor *)

(* positions before i whose unit has a strictly lower level than unit i *)
ShallowerBefore(units, i) == {j \in 1..(i - 1) : units[j].level < units[i].level}

(* the reference parent relation: the nearest such position, if any *)
ReferenceParents(units) ==
    {<<units[CHOOSE j \in ShallowerBefore(units, i) :
                 \A l \in ShallowerBefore(units, i) : l <= j].id,
       units[i].id>> : i \in {k \in DOMAIN units : ShallowerBefore(units, k) # {}}}

\* C19: the CONTAINS edges are exactly the pairs p -> u where p is the
\* nearest unit before u in sequence order whose level is strictly lower
\* than u's; a unit with no such predecessor has no parent, and no pair
\* is emitted twice.
C19_NearestShallowerParent ==
    res.op = "build_graph" =>
        LET contains == EdgesOfType(res.edges, "CONTAINS")
        IN  /\ {<<contains[k].source_id, contains[k].target_id>> :
                   k \in DOMAIN contains} = ReferenceParents(arg.atomic_units)
            /\ Len(contains) = Cardinality(ReferenceParents(arg.atomic_units))

(* the parent of the third unit is the first: the deeper second unit is   *)
(* popped from the stack                                                   *)
C19_Witness ==
    /\ res.op = "build_graph"
    /\ Len(arg.atomic_units) = 3
    /\ arg.atomic_units[1].level = 0
    /\ arg.atomic_units[2].level = 2
    /\ arg.atomic_units[3].level = 1
    /\ EdgesOfType(res.edges, "CONTAINS") = <<ContainsEdge(1, 2), ContainsEdge(1, 3)>>

----------------------------------------------------------------------------
(* C20  Heading lookup tie-break *)

(* the heading/section nodes, in unit order, whose first number is n *)
HeadingsNumbered(units, n) ==
    {i \in DOMAIN units : /\ units[i].unit_type \in HeadingTypes
                          /\ Numbers(units[i].text) # <<>>
                          /\ Numbers(units[i].text)[1] = n}

\* C20: when several heading/section nodes have the same first number, the
\* heading lookup keeps the first of them in unit order, and every
\* REFERS_TO edge for that number ends at that first node.
C20_FirstHeadingWins ==
    res.op = "build_graph" =>
        LET units  == arg.atomic_units
            refs   == EdgesOfType(res.edges, "REFERS_TO")
            lookup == heading_lookup(res.nodes, NodeOrder(units))
            first(n) == units[CHOOSE i \in HeadingsNumbered(units, n) :
                               \A j \in HeadingsNumbered(units, n) : i <= j].id
        IN  /\ \A n \in DOMAIN lookup : lookup[n] = first(n)
            /\ \A k \in DOMAIN refs :
                  refs[k].target_id = first(refs[k].metadata.reference_number)

----------------------------------------------------------------------------
(* C21  RRF output order and payload *)

(* the items of the two lists in scanning order *)
Scanned(lists) == lists[1] \o lists[2]

(* position of the first occurrence of id in scanning order *)
FirstSeen(lists, id) ==
    CHOOSE p \in DOMAIN Scanned(lists) :
        /\ Scanned(lists)[p].atomic_unit_id = id
        /\ \A q \in 1..(p - 1) : Scanned(lists)[q].atomic_unit_id # id

----------------------------------------------------------------------------
(* SpecExpand: neighbor expansion of every short result list over every   *)
(* small stored graph of collection c1, or with no graph stored; the       *)
(* neighbor query of unit 1 may fail.                                      *)

MaxExpandEdges == 2     \* edges of the stored graph in SpecExpand

(* the builder never links a unit to itself *)
ExpandEdgeEnds == {e \in NbrNodeIds \X NbrNodeIds : e[1] # e[2]}

(* the two highest scores fusion gives: 1/61 and 1/62 *)
ExpandScores == {Scale \div 61, Scale \div 62}

ExpandResult(r) ==
    [atomic_unit_id |-> r[1], score |-> r[2], source |-> "fusion",
     metadata |-> [unit_type |-> "paragraph"]]

(* result lists as the retrievers hand them over: one entry per unit,     *)
(* best score first                                                        *)
ExpandResultLists ==
    {[i \in DOMAIN r |-> ExpandResult(r[i])] :
        r \in {q \in SeqsUpTo(NbrNodeIds \X ExpandScores, MaxListLen) :
                  /\ \A i, j \in DOMAIN q : q[i][1] = q[j][1] => i = j
                  /\ \A i, j \in DOMAIN q : i < j => q[i][2] >= q[j][2]}}

ExpandGraph(n, f) ==
    [nodes |-> [id \in NbrNodeIds |-> NbrNode(id)],
     edges |-> [i \in 1..n |-> [source_id |-> f[i][1], target_id |-> f[i][2],
                                edge_type |-> "NEXT"]]]

ExpandInit ==
    /\ \E results \in ExpandResultLists, hops \in 0..MaxHops, failing \in {{}, {1}} :
          arg = [op |-> "expand", results |-> results, hops |-> hops,
                 failing |-> failing]
    /\ res = NoCall
    /\ \/ document_graphs = <<>>
       \/ \E n \in 0..MaxExpandEdges : \E f \in [1..n -> ExpandEdgeEnds] :
             document_graphs =
                ("c1" :> ([tenant_id |-> "tA"] @@ graph_content(ExpandGraph(n, f))))
    /\ documents = {}
    /\ atomic_units = {}
    /\ bm25_indexes = <<>>
    /\ qdrant = <<>>
    /\ ret = NoCall
    /\ redis = <<>>
    /\ sessions = <<>>

ExpandCall ==
    /\ arg.op = "expand" /\ res = NoCall
    /\ res' = [op |-> "expand"]
              @@ expand_results("c1", "tA", arg.results, arg.hops, arg.failing)
    /\ UNCHANGED <<arg, sysvars>>

SpecExpand == ExpandInit /\ [][ExpandCall]_vars

----------------------------------------------------------------------------
(* C22  Neighbor expansion result *)

(* the lookup of the i-th input result raises *)
LookupFails(i) ==
    \/ arg.results[i].atomic_unit_id \in arg.failing
    \/ load_graph("c1", "tA") = NoRow

(* what the neighbor query of the i-th input result yields *)
Found(i) ==
    IF LookupFails(i) THEN <<>>
    ELSE neighbors_of(load_graph("c1", "tA"), arg.results[i].atomic_unit_id,
                      "None", arg.hops)

FoundIds(i) == {Found(i)[k].node.node_id : k \in DOMAIN Found(i)}

(* the input result whose lookup is the first to yield unit id *)
Discoverer(id) ==
    CHOOSE i \in DOMAIN arg.results :
        /\ id \in FoundIds(i)
        /\ \A j \in 1..(i - 1) : id \notin FoundIds(j)

DistanceFrom(i, id) ==
    Found(i)[CHOOSE k \in DOMAIN Found(i) : Found(i)[k].node.node_id = id].distance

RECURSIVE Pow(_, _)
Pow(b, n) == IF n = 0 THEN 1 ELSE b * Pow(b, n - 1)

\* C22: in the expanded list every unit id appears at most once; every
\* entry added as a neighbor has source graph, the distance at which the
\* first result whose lookup yields it found it, and that result's score
\* times 0.8^distance; and the list is sorted by score, descending.
C22_ExpansionResult ==
    res.op = "expand" =>
        LET out == res.results
        IN  /\ \A i, j \in DOMAIN out :
                  out[i].atomic_unit_id = out[j].atomic_unit_id => i = j
            /\ \A i, j \in DOMAIN out : i < j => out[i].score >= out[j].score
            /\ \A i \in DOMAIN out :
                  out[i].source = "graph" =>
                      /\ \E p \in DOMAIN arg.results : out[i].atomic_unit_id \in FoundIds(p)
                      /\ LET p == Discoverer(out[i].atomic_unit_id)
                             d == DistanceFrom(p, out[i].atomic_unit_id)
                         IN  /\ out[i].graph_distance = d
                             /\ out[i].score * Pow(5, d) = arg.results[p].score * Pow(4, d)
            /\ \A i \in DOMAIN out :
                  out[i].source # "graph" => \E p \in DOMAIN arg.results : out[i] = arg.results[p]

\* results 1 (1/61) and 2 (1/62), edges 1 -> 3 and 2 -> 3, one hop: unit 3
\* is found by both lookups and appears once, with the score of result 1
\* times 0.8
C22_Witness ==
    /\ res.op = "expand"
    /\ Len(arg.results) = 2
    /\ arg.results[1].atomic_unit_id = 1 /\ arg.results[1].score = Scale \div 61
    /\ arg.results[2].atomic_unit_id = 2 /\ arg.results[2].score = Scale \div 62
    /\ 3 \in FoundIds(1) /\ 3 \in FoundIds(2)
    /\ Len(res.results) = 3
    /\ res.results[3].atomic_unit_id = 3
    /\ res.results[3].source = "graph"
    /\ res.results[3].score = ((Scale \div 61) \div 5) * 4

----------------------------------------------------------------------------
(* C24  Neighbor expansion and the original results *)

\* C24: every entry of the input result list appears in the expanded list
\* with its original score and its original source, also when its unit is a
\* graph neighbor of a result processed before it.
C24_OriginalsPreserved ==
    res.op = "expand" =>
        \A i \in DOMAIN arg.results :
            \E k \in DOMAIN res.results :
                /\ res.results[k].atomic_unit_id = arg.results[i].atomic_unit_id
                /\ res.results[k].score = arg.results[i].score
                /\ res.results[k].source = arg.results[i].source

----------------------------------------------------------------------------
(* C29  A failing neighbor lookup does not abort the expansion *)

ExpandedIds == {res.results[k].atomic_unit_id : k \in DOMAIN res.results}

----------------------------------------------------------------------------
(* C23  Ceiling of the fused scores *)

FusingModes == {"hybrid", "graph_enhanced"}

----------------------------------------------------------------------------
(* C27  Structural edges and documents *)

StructuralEdgeTypes == {"CONTAINS", "NEXT"}

InsideOneDocument(graph, edge) ==
    graph.nodes[edge.source_id].document_id = graph.nodes[edge.target_id].document_id

\* C27: in the graph build_graph stores for a collection, every CONTAINS
\* edge and every NEXT edge connects two units of the same document, also
\* when the units of the collection come from more than one document.
C27_StructuralEdgesInsideDocument ==
    (/\ ret.op = "build_graph"
     /\ ret.kind = "ok"
     /\ load_graph(ret.chat_id, ret.tenant_id) # NoRow)
        => LET graph == load_graph(ret.chat_id, ret.tenant_id)
           IN  \A k \in DOMAIN graph.edges :
                   graph.edges[k].edge_type \in StructuralEdgeTypes
                      => InsideOneDocument(graph, graph.edges[k])

----------------------------------------------------------------------------
(* C28  The neighbor query is a breadth-first search *)

TypeMatches(edge) == arg.edge_type = "None" \/ edge.edge_type = arg.edge_type

(* the nodes at the end of a walk of exactly n matching edges from the     *)
(* start node                                                              *)
RECURSIVE WalkEnds(_)
WalkEnds(n) ==
    IF n = 0 THEN {arg.node_id}
    ELSE {arg.graph.edges[k].target_id : k \in
             {l \in DOMAIN arg.graph.edges :
                 /\ arg.graph.edges[l].source_id \in WalkEnds(n - 1)
                 /\ TypeMatches(arg.graph.edges[l])}}

Reachable ==
    {id \in DOMAIN arg.graph.nodes \ {arg.node_id} :
        \E n \in 1..arg.hops : id \in WalkEnds(n)}

ShortestWalk(id) ==
    CHOOSE n \in 1..arg.hops : id \in WalkEnds(n) /\ \A m \in 1..(n - 1) : id \notin WalkEnds(m)

\* C28: neighbors returns exactly the stored nodes, other than the start
\* node, that a directed path of 1..hops edges matching the edge-type
\* filter reaches from the start node, each once and with the length of
\* the shortest such path as its distance; with hops = 0 it returns nothing.
C28_BreadthFirstExact ==
    res.op = "get_neighbors" =>
        LET out == res.neighbors
        IN  /\ {out[k].node.node_id : k \in DOMAIN out} = Reachable
            /\ \A k, l \in DOMAIN out :
                  out[k].node.node_id = out[l].node.node_id => k = l
            /\ \A k \in DOMAIN out :
                  /\ out[k].node = arg.graph.nodes[out[k].node.node_id]
                  /\ out[k].distance = ShortestWalk(out[k].node.node_id)
            /\ arg.hops = 0 => out = <<>>

\* NEXT edges 1 -> 2 -> 3 and a CONTAINS edge 1 -> 3, asked for NEXT within
\* two hops: node 2 at distance 1 and node 3 at distance 2
C28_Witness ==
    /\ res.op = "get_neighbors"
    /\ arg.edge_type = "NEXT"
    /\ arg.hops = 2
    /\ arg.graph.edges = <<NbrEdge(<<1, 3, "CONTAINS">>), NbrEdge(<<1, 2, "NEXT">>),
                           NbrEdge(<<2, 3, "NEXT">>)>>
    /\ Len(res.neighbors) = 2
    /\ res.neighbors[1].node.node_id = 2 /\ res.neighbors[1].distance = 1
    /\ res.neighbors[2].node.node_id = 3 /\ res.neighbors[2].distance = 2

----------------------------------------------------------------------------
(* SpecRateLimit: RateLimiter.check_rate_limit called by concurrent        *)
(* callers (worker processes sharing one Redis) for one key within one     *)
(* window bucket, with Redis available and rate limiting enabled.  GET     *)
(* and the INCR/EXPIRE pipeline are two round trips to Redis; each is      *)
(* atomic, the pair is not.                                                *)

RateLimit == 2          \* limit passed to check_rate_limit in SpecRateLimit

Callers == {"p1", "p2", "p3"}

(* f"ratelimit:{key}:{window_start}" *)
redis_key == "ratelimit:user:0"

(* current_count = self.redis_client.get(redis_key); int(...) or 0 *)
redis_get(key) == IF key \in DOMAIN redis THEN redis[key] ELSE 0

(* pipe.incr(redis_key); pipe.expire(...); pipe.execute() *)
redis_incr(key) ==
    IF key \in DOMAIN redis THEN [redis EXCEPT ![key] = @ + 1]
    ELSE (key :> 1) @@ redis

(* a caller: where it is in check_rate_limit, the count it read, what its *)
(* last call returned and how many of its calls were allowed               *)
IdleCaller ==
    [pc |-> "idle", current_count |-> 0, allowed |-> FALSE, remaining |-> 0,
     allowed_calls |-> 0]

RateLimitInit ==
    /\ arg = [op |-> "check_rate_limit", key |-> redis_key, limit |-> RateLimit]
    /\ res = NoCall
    /\ documents = {}
    /\ atomic_units = {}
    /\ bm25_indexes = <<>>
    /\ document_graphs = <<>>
    /\ qdrant = <<>>
    /\ ret = NoCall
    /\ redis = <<>>
    /\ sessions = [p \in Callers |-> IdleCaller]

(* check_rate_limit up to the GET *)
GetCount(p) ==
    /\ arg.op = "check_rate_limit"
    /\ sessions[p].pc = "idle"
    /\ sessions' = [sessions EXCEPT ![p].pc = "counted",
                                    ![p].current_count = redis_get(arg.key)]
    /\ UNCHANGED <<arg, res, documents, atomic_units, bm25_indexes,
                   document_graphs, qdrant, ret, redis>>

(* check_rate_limit from the comparison to the return *)
CheckAndIncrement(p) ==
    /\ arg.op = "check_rate_limit"
    /\ sessions[p].pc = "counted"
    /\ IF sessions[p].current_count >= arg.limit
       THEN /\ sessions' = [sessions EXCEPT ![p].pc = "idle",
                                            ![p].allowed = FALSE,
                                            ![p].remaining = 0]
            /\ redis' = redis
       ELSE /\ sessions' = [sessions EXCEPT
                              ![p].pc = "idle",
                              ![p].allowed = TRUE,
                              ![p].remaining = arg.limit - (sessions[p].current_count + 1),
                              ![p].allowed_calls = @ + 1]
            /\ redis' = redis_incr(arg.key)
    /\ UNCHANGED <<arg, res, documents, atomic_units, bm25_indexes,
                   document_graphs, qdrant, ret>>

RateLimitNext ==
    \/ \E p \in Callers : GetCount(p)
    \/ \E p \in Callers : CheckAndIncrement(p)

SpecRateLimit == RateLimitInit /\ [][RateLimitNext]_vars

----------------------------------------------------------------------------
(* C30  Rate limit bound *)

RECURSIVE AllowedCalls(_)
AllowedCalls(S) ==
    IF S = {} THEN 0
    ELSE LET p == CHOOSE x \in S : TRUE
         IN  sessions[p].allowed_calls + AllowedCalls(S \ {p})

\* C30: for one key and one window bucket the number of calls that return
\* allowed = True never exceeds limit, however the concurrent callers
\* interleave.
C30_RateLimitBound ==
    arg.op = "check_rate_limit" => AllowedCalls(Callers) <= arg.limit

----------------------------------------------------------------------------
(* Concurrent sessions on the bm25_indexes row of chat c1.  Every request  *)
(* and every task has its own database session; a statement it executes    *)
(* and a commit are atomic, what lies between them is not.  Tenant tA      *)
(* uploads and deletes the documents dA and dC of the chat, builds the     *)
(* index and searches it.                                                  *)

ContentColumns ==
    {"corpus_tokens", "doc_ids", "doc_metadata", "document_count", "total_tokens"}

(* an UPDATE that writes the token lists and leaves the other columns *)
commit_update_tokens(row, loaded, content) ==
    [row EXCEPT !.corpus_tokens = content.corpus_tokens]

(* _save_index, existing row: the attributes are assigned on the object    *)
(* the SELECT loaded and the commit flushes one UPDATE of that row, which  *)
(* sets the columns whose assigned value differs from the loaded one       *)
commit_update(row, loaded, content) ==
    [c \in DOMAIN row |->
        IF c \in ContentColumns /\ content[c] # loaded[c] THEN content[c]
        ELSE row[c]]

(* _save_index, no existing row: the commit flushes an INSERT, which the   *)
(* unique index ix_bm25_indexes_chat_id rejects when the chat has a row    *)
commit_insert(chat_id, tenant_id, content) ==
    IF chat_id \in DOMAIN bm25_indexes
    THEN [kind |-> "BM25BuildError", bm25_indexes |-> bm25_indexes]
    ELSE [kind |-> "ok",
          bm25_indexes |-> (chat_id :> ([tenant_id |-> tenant_id] @@ content))
                           @@ bm25_indexes]

IdleBuilder ==
    [role |-> "build", pc |-> "idle", content |-> NoRow, existing |-> NoRow,
     kind |-> "none"]

IdleSearcher ==
    [role |-> "search", pc |-> "idle", index_data |-> NoRow, found |-> NoCall]

(* dA is processed, nothing is indexed yet *)
SessionsInit(callers) ==
    /\ arg = [op |-> "system"]
    /\ res = NoCall
    /\ documents = ChatDocuments
    /\ atomic_units = save_atomic_units(ParsedUnits("dA"), Document("dA"), "tA")
    /\ bm25_indexes = <<>>
    /\ document_graphs = <<>>
    /\ qdrant = <<>>
    /\ ret = NoCall
    /\ redis = <<>>
    /\ sessions = callers

(* build_index, steps 1 to 3: load the units and tokenize them *)
BuildTokenize(p) ==
    /\ arg.op = "system"
    /\ sessions[p].role = "build" /\ sessions[p].pc = "idle"
    /\ LET units == load_atomic_units("c1", "tA")
       IN  sessions' =
              IF units = <<>>
              THEN [sessions EXCEPT ![p].kind = "BM25BuildError"]
              ELSE [sessions EXCEPT ![p].pc = "tokenized",
                                    ![p].content = index_content(units)]
    /\ UNCHANGED <<arg, res, documents, atomic_units, bm25_indexes,
                   document_graphs, qdrant, ret, redis>>

(* _save_index: select(BM25Index).where(BM25Index.chat_id == chat_id) *)
SaveSelect(p) ==
    /\ arg.op = "system"
    /\ sessions[p].role = "build" /\ sessions[p].pc = "tokenized"
    /\ sessions' = [sessions EXCEPT
                      ![p].pc = "selected",
                      ![p].existing = IF "c1" \in DOMAIN bm25_indexes
                                      THEN bm25_indexes["c1"] ELSE NoRow]
    /\ UNCHANGED <<arg, res, documents, atomic_units, bm25_indexes,
                   document_graphs, qdrant, ret, redis>>

(* _save_index: await self.db.commit(), and the return of build_index *)
SaveCommit(p) ==
    /\ arg.op = "system"
    /\ sessions[p].role = "build" /\ sessions[p].pc = "selected"
    /\ IF sessions[p].existing = NoRow
       THEN LET saved == commit_insert("c1", "tA", sessions[p].content)
            IN  /\ bm25_indexes' = saved.bm25_indexes
                /\ sessions' = [sessions EXCEPT ![p] =
                                   [IdleBuilder EXCEPT !.kind = saved.kind]]
       ELSE /\ bm25_indexes' =
                  [bm25_indexes EXCEPT !["c1"] =
                      commit_update(@, sessions[p].existing, sessions[p].content)]
            /\ sessions' = [sessions EXCEPT ![p] =
                               [IdleBuilder EXCEPT !.kind = "ok"]]
    /\ UNCHANGED <<arg, res, documents, atomic_units, document_graphs, qdrant,
                   ret, redis>>

(* search, step 1: _load_index, one SELECT of the row *)
SearchLoad(p) ==
    /\ arg.op = "system"
    /\ sessions[p].role = "search" /\ sessions[p].pc = "idle"
    /\ sessions' = [sessions EXCEPT ![p].pc = "loaded",
                                    ![p].index_data = load_index("c1", "tA")]
    /\ UNCHANGED <<arg, res, documents, atomic_units, bm25_indexes,
                   document_graphs, qdrant, ret, redis>>

(* search, steps 2 to 6, on the loaded columns *)
SearchScore(p, query, top_k) ==
    /\ arg.op = "system"
    /\ sessions[p].role = "search" /\ sessions[p].pc = "loaded"
    /\ sessions' = [sessions EXCEPT
                      ![p].pc = "scored",
                      ![p].found = [query |-> query, top_k |-> top_k]
                                   @@ SearchLoaded(sessions[p].index_data, query, top_k)]
    /\ UNCHANGED <<arg, res, documents, atomic_units, bm25_indexes,
                   document_graphs, qdrant, ret, redis>>

(* the caller of search takes the results *)
SearchReturn(p) ==
    /\ arg.op = "system"
    /\ sessions[p].role = "search" /\ sessions[p].pc = "scored"
    /\ sessions' = [sessions EXCEPT ![p] = IdleSearcher]
    /\ UNCHANGED <<arg, res, documents, atomic_units, bm25_indexes,
                   document_graphs, qdrant, ret, redis>>

(* documents come and go while the sessions run *)
UploadsAndDeletes ==
    \/ \E d \in ChatDocuments : ProcessDocument(d, "tA")
    \/ \E d \in ChatDocuments : DeleteDocument(d, "tA")
    \/ Return

(* one build at a time, and a search *)
RebuildInit == SessionsInit(("b1" :> IdleBuilder) @@ ("s1" :> IdleSearcher))

RebuildNext ==
    \/ UploadsAndDeletes
    \/ \E p \in DOMAIN sessions : BuildTokenize(p)
    \/ \E p \in DOMAIN sessions : SaveSelect(p)
    \/ \E p \in DOMAIN sessions : SaveCommit(p)
    \/ \E p \in DOMAIN sessions : SearchLoad(p)
    \/ \E p \in DOMAIN sessions, k \in RequestTopKs : SearchScore(p, <<"Payment">>, k)
    \/ \E p \in DOMAIN sessions : SearchReturn(p)

SpecRebuild == RebuildInit /\ [][RebuildNext]_vars

(* two builds at a time *)
BuildsInit == SessionsInit(("b1" :> IdleBuilder) @@ ("b2" :> IdleBuilder))

BuildsNext ==
    \/ UploadsAndDeletes
    \/ \E p \in DOMAIN sessions : BuildTokenize(p)
    \/ \E p \in DOMAIN sessions : SaveSelect(p)
    \/ \E p \in DOMAIN sessions : SaveCommit(p)

SpecBuilds == BuildsInit /\ [][BuildsNext]_vars

----------------------------------------------------------------------------
(* C25  Snapshot consistency of a search under a rebuild *)

(* what a complete build stores for each set of documents the chat can    *)
(* hold                                                                    *)
BuildContents ==
    {index_content(OrderBySequence(
         UNION {save_atomic_units(ParsedUnits(d), Document(d), "tA") : d \in D})) :
        D \in (SUBSET ChatDocuments) \ {{}}}

Content(row) == [c \in ContentColumns |-> row[c]]

Searchers == {p \in DOMAIN sessions : sessions[p].role = "search"}

\* C25: the corpus_tokens, doc_ids and doc_metadata a search scores come
\* from one build, the one before or the one after a concurrent rebuild,
\* and every unit id and metadata it returns stand at the position of the
\* token list that was scored for them.
C25_SearchScoresOneBuild ==
    \A p \in Searchers :
        sessions[p].pc = "scored" =>
            LET index_data == sessions[p].index_data
                found      == sessions[p].found
            IN  /\ index_data = NoRow \/ Content(index_data) \in BuildContents
                /\ \A k \in DOMAIN found.results :
                      \E i \in DOMAIN index_data.doc_ids :
                          /\ index_data.doc_ids[i] = found.results[k].atomic_unit_id
                          /\ index_data.doc_metadata[i] = found.results[k].metadata
                          /\ \E u \in Range(ChatUnits) :
                                /\ u.id = index_data.doc_ids[i]
                                /\ index_data.corpus_tokens[i] = tokenize(u.text)

\* a search loaded the index of dA alone, a rebuild over dA and dC was
\* committed before it scored, and it returns a unit of dA
C25_Witness ==
    /\ "s1" \in DOMAIN sessions
    /\ sessions["s1"].role = "search"
    /\ sessions["s1"].pc = "scored"
    /\ sessions["s1"].index_data # NoRow
    /\ sessions["s1"].index_data.document_count = 3
    /\ sessions["s1"].found.results # <<>>
    /\ sessions["s1"].found.results[1].metadata.document_id = "dA"
    /\ "c1" \in DOMAIN bm25_indexes
    /\ bm25_indexes["c1"].document_count = 6

----------------------------------------------------------------------------
(* C26  One complete record per collection *)

\* C26: after any interleaving of builds of a collection, the record the
\* bm25_indexes table holds for it (the unique index on chat_id admits one)
\* holds the contents of one complete build.
C26_RecordOfOneBuild ==
    \A c \in DOMAIN bm25_indexes : Content(bm25_indexes[c]) \in BuildContents

====
